---------------------------- MODULE Spec2Model ----------------------------
(***************************************************************************)
(* Model of the resume editor store (store/useEditorStore), its nested     *)
(* path setter (lib/utils/deepSet), its id generator (lib/utils/ids) and   *)
(* its debounced localStorage persistence.                                 *)
(*                                                                         *)
(* JavaScript values are modelled as tagged records so that the dynamic    *)
(* tests of the code (truthiness, typeof, Array.isArray) can be computed.  *)
(* Objects whose identity matters (the document and its meta, theme and    *)
(* sections sub-objects) carry an address in the variable addr, so that an *)
(* in-place edit reaches every holder of the same object.                  *)
(***************************************************************************)
EXTENDS Integers, Sequences, FiniteSets, TLC

VARIABLES
    doc,           \* state.doc of the store
    template,      \* state.template of the store
    storage,       \* localStorage[STORAGE_KEY]
    timers,        \* the timers set by setTimeout that have not fired or been cleared
    saveTimeout,   \* the module variable saveTimeout: the id of the timer set last, 0 at first
    now,           \* Date.now(), milliseconds since the module was loaded
    sampleResume,  \* the exported sampleResume object
    snap,          \* a document reference a reader took from the store earlier
    blockTemplate, \* the caller's object last passed to addBlock
    addr,          \* addresses of the objects held by doc, sampleResume, snap and blockTemplate
    last,          \* the last call or timer callback that ran, with its inputs
    hist,          \* history of commits and durable writes
    ds,            \* a caller of deepSet: its target object, the last call and its outcome
    ai,            \* the server's POST /api/ai/describe: the last request and its response
    form           \* the HeaderSection component: its form values and the effect's position

vars == <<doc, template, storage, timers, saveTimeout, now, sampleResume, snap,
          blockTemplate, addr, last, hist, ds, ai, form>>

-----------------------------------------------------------------------------
(* Bounds of the model *)

MaxTime == 1000
MaxCallTime == 250
MaxOps == 2
MaxBlocks == 2
MaxDeepSetCalls == 2
MaxRequests == 2
MaxEdits == 2

-----------------------------------------------------------------------------
(* JavaScript values *)

Undefined == [t |-> "undefined"]
Null == [t |-> "null"]
Bool(b) == [t |-> "boolean", v |-> b]
Num(n) == [t |-> "number", v |-> n]
Str(s) == [t |-> "string", v |-> s]
Obj(r) == [t |-> "object", v |-> r]
Arr(s) == [t |-> "array", v |-> s, p |-> <<>>]

EmptyObj == Obj(<<>>)

(* ToBoolean *)
Truthy(x) ==
    CASE x.t = "undefined" -> FALSE
      [] x.t = "null" -> FALSE
      [] x.t = "boolean" -> x.v
      [] x.t = "number" -> x.v # 0
      [] x.t = "string" -> x.v # ""
      [] OTHER -> TRUE

(* typeof x === 'object' *)
TypeofObject(x) == x.t \in {"object", "array", "null"}

(* typeof x === 'string' *)
TypeofString(x) == x.t = "string"

(* Array.isArray(x) *)
IsArray(x) == x.t = "array"

(* The decimal property names of array elements, "0" for the first. *)
IndexKeys == <<"0", "1", "2", "3", "4">>

IndexOfKey(k) ==
    IF \E i \in 1..Len(IndexKeys) : IndexKeys[i] = k
    THEN CHOOSE i \in 1..Len(IndexKeys) : IndexKeys[i] = k
    ELSE 0

(* x[k] for a value x that is not null or undefined *)
Get(x, k) ==
    CASE x.t = "object" -> IF k \in DOMAIN x.v THEN x.v[k] ELSE Undefined
      [] x.t = "array" ->
            IF IndexOfKey(k) \in 1..Len(x.v) THEN x.v[IndexOfKey(k)]
            ELSE IF k \in DOMAIN x.p THEN x.p[k]
            ELSE Undefined
      [] OTHER -> Undefined

(* x[k] = y for an object or an array x. An array takes an element at an  *)
(* index name (growing by holes, which read as undefined) and keeps any   *)
(* other name as a property beside its elements.                          *)
SetProp(x, k, y) ==
    IF x.t = "array"
    THEN IF IndexOfKey(k) > 0
         THEN [x EXCEPT !.v = [i \in 1..(IF IndexOfKey(k) > Len(x.v) THEN IndexOfKey(k) ELSE Len(x.v)) |->
                                 IF i = IndexOfKey(k) THEN y
                                 ELSE IF i <= Len(x.v) THEN x.v[i] ELSE Undefined]]
         ELSE [x EXCEPT !.p = [j \in (DOMAIN x.p) \cup {k} |-> IF j = k THEN y ELSE x.p[j]]]
    ELSE Obj([j \in (DOMAIN x.v) \cup {k} |-> IF j = k THEN y ELSE x.v[j]])

(* { ...a, ...b } for objects, undefined or null *)
Spread(a, b) ==
    LET ra == IF a.t = "object" THEN a.v ELSE <<>>
        rb == IF b.t = "object" THEN b.v ELSE <<>>
    IN  Obj([k \in (DOMAIN ra) \cup (DOMAIN rb) |->
                IF k \in DOMAIN rb THEN rb[k] ELSE ra[k]])

(* { ...a, [k]: x } *)
With(a, k, x) == Spread(a, Obj([j \in {k} |-> x]))

(* s.split('.') *)
Split(s) ==
    LET n == Len(s)
        cuts == {0} \cup {i \in 1..n : SubSeq(s, i, i) = "."} \cup {n + 1}
        Nth(k) == CHOOSE c \in cuts : Cardinality({d \in cuts : d < c}) = k - 1
    IN  [k \in 1..(Cardinality(cuts) - 1) |-> SubSeq(s, Nth(k) + 1, Nth(k + 1) - 1)]

-----------------------------------------------------------------------------
(* JSON *)

(* The value that JSON.stringify writes for x: properties holding undefined *)
(* are left out, array elements holding undefined become null, and an      *)
(* array keeps its elements only.                                          *)
RECURSIVE JsonValue(_)
JsonValue(x) ==
    CASE x.t = "object" ->
            Obj([k \in {j \in DOMAIN x.v : x.v[j].t # "undefined"} |-> JsonValue(x.v[k])])
      [] x.t = "array" ->
            Arr([i \in 1..Len(x.v) |->
                    IF x.v[i].t = "undefined" THEN Null ELSE JsonValue(x.v[i])])
      [] OTHER -> x

(* A string is modelled by what it holds: the JSON text of a value, the *)
(* empty string, or text that is not JSON.                                *)
JSONstringify(x) == [kind |-> "json", value |-> JsonValue(x)]
EmptyText == [kind |-> "empty"]
GarbageText == [kind |-> "garbage"]

(* JSON.parse(s): ok is FALSE when it throws SyntaxError *)
JSONparse(s) ==
    IF s.kind = "json" THEN [ok |-> TRUE, value |-> s.value]
    ELSE [ok |-> FALSE, value |-> Undefined]

(* localStorage.getItem of a key that is not set *)
NoItem == [kind |-> "absent"]


-----------------------------------------------------------------------------
(* Program constants *)

STORAGE_KEY == "resume_doc_v1"
AUTOSAVE_DELAY == 500

(* Granularity of the clock: Date.now() is observed in steps of half the *)
(* autosave delay, so that a call can fall inside a pending delay.        *)
TickStep == AUTOSAVE_DELAY \div 2

defaultTheme ==
    Obj([fontFamily |-> Str("Inter, ui-sans-serif, system-ui"),
         fontScale |-> Num(1),
         colors |-> Obj([primary |-> Str("hsl(var(--brand))"),
                         accent |-> Str("hsl(var(--accent))"),
                         muted |-> Str("hsl(var(--muted))")]),
         spacing |-> Obj([sectionY |-> Num(20), itemY |-> Num(8)]),
         layout |-> Obj([paper |-> Str("A4"), columns |-> Num(1),
                         gutter |-> Num(24), showIcons |-> Bool(FALSE)])])

Block(id, type, fields) == Obj([id |-> Str(id), type |-> Str(type), fields |-> fields])

Section(id, type, title, blocks) ==
    Obj([id |-> Str(id), type |-> Str(type), title |-> Str(title), blocks |-> Arr(blocks)])

sampleSections ==
    Arr(<<
      Section("header_section", "header", "Header", <<
        Block("header_block_001", "header",
          Obj([name |-> Str("John Anderson"),
               title |-> Str("Senior Software Engineer"),
               email |-> Str("john.anderson@email.com"),
               phone |-> Str("+1 (555) 123-4567"),
               location |-> Str("San Francisco, CA"),
               linkedin |-> Str("linkedin.com/in/johnanderson"),
               website |-> Str("")])) >>),
      Section("summary_section", "summary", "Professional Summary", <<
        Block("summary_block_001", "summary",
          Obj([content |-> Str("Experienced software engineer with 8+ years of expertise in full-stack development, cloud architecture, and team leadership. Proven track record of delivering scalable solutions that drive business growth and improve user experience. Passionate about mentoring junior developers and implementing best practices in agile environments.")])) >>),
      Section("experience_section", "experience", "Professional Experience", <<
        Block("experience_block_001", "experience",
          Obj([role |-> Str("Senior Software Engineer"),
               company |-> Str("TechCorp Solutions"),
               location |-> Str("San Francisco, CA"),
               startDate |-> Str("Jan 2020"),
               endDate |-> Str("Present"),
               highlights |-> Arr(<<
                 Str("Led development of microservices architecture serving 1M+ daily active users"),
                 Str("Reduced system latency by 40% through optimization of database queries and caching strategies"),
                 Str("Mentored 5 junior developers and established code review best practices"),
                 Str("Architected and implemented CI/CD pipeline reducing deployment time by 60%") >>)])) >>),
      Section("skills_section", "skills", "Technical Skills", <<
        Block("skills_block_001", "skills",
          Obj([items |-> Arr(<<
                 Obj([category |-> Str("Languages"),
                      skills |-> Str("JavaScript, TypeScript, Python, Java, Go")]),
                 Obj([category |-> Str("Frameworks"),
                      skills |-> Str("React, Node.js, Express, Django, Spring Boot")]),
                 Obj([category |-> Str("Databases"),
                      skills |-> Str("PostgreSQL, MongoDB, Redis, Elasticsearch")]),
                 Obj([category |-> Str("Cloud & DevOps"),
                      skills |-> Str("AWS, Docker, Kubernetes, Terraform, Jenkins")]) >>)])) >>)
    >>)

(* The sampleResume literal, evaluated when Date.now() is t. *)
sampleResumeAt(t) ==
    Obj([id |-> Str("sample_resume_001"),
         meta |-> Obj([title |-> Str("John Anderson Resume"),
                       createdAt |-> Num(t),
                       updatedAt |-> Num(t)]),
         theme |-> defaultTheme,
         sections |-> sampleSections])

-----------------------------------------------------------------------------
(* Readers of a document *)

Sections(d) == d.v.sections.v
Blocks(sec) == sec.v.blocks.v
SectionIds(d) == [i \in 1..Len(Sections(d)) |-> Sections(d)[i].v.id.v]
BlockIds(sec) == [j \in 1..Len(Blocks(sec)) |-> Blocks(sec)[j].v.id.v]

(* sections.find(s => s.id === sectionId): the index of the first match, 0 for none *)
FindSection(d, sectionId) ==
    LET hits == {i \in 1..Len(Sections(d)) : Get(Sections(d)[i], "id") = sectionId}
    IN  IF hits = {} THEN 0 ELSE CHOOSE i \in hits : \A j \in hits : i <= j

(* section.blocks.find(b => b.id === blockId) *)
FindBlock(sec, blockId) ==
    LET hits == {j \in 1..Len(Blocks(sec)) : Get(Blocks(sec)[j], "id") = blockId}
    IN  IF hits = {} THEN 0 ELSE CHOOSE j \in hits : \A k \in hits : j <= k


-----------------------------------------------------------------------------
(* lib/utils/deepSet and lib/utils/ids *)

TargetError == "deepSet: target must be an object"
PathError == "deepSet: path must be a string"

(* The loop that makes an array for a missing slot when the next key is an index *)
RECURSIVE deepSetKeysArrays(_, _, _)
deepSetKeysArrays(current, keys, value) ==
    IF Len(keys) = 1
    THEN SetProp(current, keys[1], value)
    ELSE LET key == keys[1]
             slot == Get(current, key)
             next == IF ~Truthy(slot) \/ ~TypeofObject(slot)
                     THEN IF IndexOfKey(keys[2]) > 0 THEN Arr(<<>>) ELSE EmptyObj
                     ELSE slot
         IN  SetProp(current, key, deepSetKeysArrays(next, Tail(keys), value))

(* The final assignment merging the value into a record the slot holds *)
RECURSIVE deepSetKeysMerge(_, _, _)
deepSetKeysMerge(current, keys, value) ==
    IF Len(keys) = 1
    THEN SetProp(current, keys[1],
                 IF Get(current, keys[1]).t = "object" /\ value.t = "object"
                 THEN Spread(Get(current, keys[1]), value) ELSE value)
    ELSE LET key == keys[1]
             slot == Get(current, key)
             next == IF ~Truthy(slot) \/ ~TypeofObject(slot) THEN EmptyObj ELSE slot
         IN  SetProp(current, key, deepSetKeysMerge(next, Tail(keys), value))

(* The loop without its test: every intermediate slot gets a new object *)
RECURSIVE deepSetKeysReplace(_, _, _)
deepSetKeysReplace(current, keys, value) ==
    IF Len(keys) = 1
    THEN SetProp(current, keys[1], value)
    ELSE SetProp(current, keys[1], deepSetKeysReplace(EmptyObj, Tail(keys), value))

(* The loop of deepSet and its final assignment, on the keys of the path. *)
RECURSIVE deepSetKeys(_, _, _)
deepSetKeys(current, keys, value) ==
    IF Len(keys) = 1
    THEN SetProp(current, keys[1], value)
    ELSE LET key == keys[1]
             slot == Get(current, key)
             next == IF ~Truthy(slot) \/ ~TypeofObject(slot) THEN EmptyObj ELSE slot
         IN  SetProp(current, key, deepSetKeys(next, Tail(keys), value))

(* deepSet with the path tested before the target *)
deepSetPathFirst(obj, path, value) ==
    IF ~TypeofString(path)
    THEN [threw |-> PathError, obj |-> obj, ret |-> Undefined]
    ELSE IF ~Truthy(obj) \/ ~TypeofObject(obj)
    THEN [threw |-> TargetError, obj |-> obj, ret |-> Undefined]
    ELSE [threw |-> "", obj |-> deepSetKeys(obj, Split(path.v), value),
          ret |-> deepSetKeys(obj, Split(path.v), value)]

(* deepSet(obj, path, value): threw names the error thrown, "" for none; *)
(* obj is the target afterwards and ret the object returned, which is the *)
(* parameter obj.                                                         *)
deepSet(obj, path, value) ==
    IF ~Truthy(obj) \/ ~TypeofObject(obj)
    THEN [threw |-> TargetError, obj |-> obj, ret |-> Undefined]
    ELSE IF ~TypeofString(path)
    THEN [threw |-> PathError, obj |-> obj, ret |-> Undefined]
    ELSE [threw |-> "", obj |-> deepSetKeys(obj, Split(path.v), value),
          ret |-> deepSetKeys(obj, Split(path.v), value)]

(* uid(prefix): rnd is Math.random().toString(36).slice(2, 10) *)
uid(prefix, rnd) ==
    (IF prefix.t = "undefined" THEN "id"
     ELSE IF prefix.t = "string" THEN prefix.v
     ELSE prefix.t) \o "_" \o rnd


-----------------------------------------------------------------------------
(* Object identity.  A reference to a document is its value together with *)
(* the addresses of the document object and of its meta, theme and        *)
(* sections objects.  Two references share an object when they hold the   *)
(* same address for it.                                                   *)

Parts == {"top", "meta", "theme", "sections"}

Ref(val, at) == [val |-> val, at |-> at]

UsedAddrs(p) ==
    {addr.doc[p], addr.sample[p]} \cup {t.at[p] : t \in timers}
        \cup (IF p = "sections" THEN {addr.tmpl.at} ELSE {})

(* The n-th address that no live object of kind p has *)
Fresh(p, n) ==
    LET free == (1..(Cardinality(UsedAddrs(p)) + n)) \ UsedAddrs(p)
    IN  CHOOSE a \in free : Cardinality({b \in free : b < a}) = n - 1

FreshAt(n) == [p \in Parts |-> Fresh(p, n)]

(* What an in-place edit e does to the objects a reference r holds.  An    *)
(* edit of part "top" assigns property e.key of the document object at    *)
(* e.at; an edit of another part changes the content of the object at     *)
(* e.at.                                                                  *)
Poke(r, e) ==
    IF e.part = "top"
    THEN IF r.at.top = e.at
         THEN Ref(With(r.val, e.key, e.val), [r.at EXCEPT ![e.key] = e.newAt])
         ELSE r
    ELSE IF r.at[e.part] = e.at
         THEN Ref(With(r.val, e.part, e.val), r.at)
         ELSE r

RECURSIVE PokeAll(_, _)
PokeAll(r, edits) ==
    IF edits = <<>> THEN r ELSE PokeAll(Poke(r, Head(edits)), Tail(edits))

-----------------------------------------------------------------------------
(* store/useEditorStore: persistence *)

(* loadFromStorage(), reading the item `stored`; sample is the reference  *)
(* to sampleResume, fresh the addresses of the objects JSON.parse makes.  *)
loadFromStorage(stored, sample, fresh) ==
    LET parsed == JSONparse(stored)
    IN  IF stored.kind \in {"absent", "empty"} THEN sample
        ELSE IF ~parsed.ok THEN sample
        ELSE IF /\ Truthy(parsed.value)
                /\ Truthy(Get(parsed.value, "id"))
                /\ Truthy(Get(parsed.value, "sections"))
                /\ IsArray(Get(parsed.value, "sections"))
             THEN Ref(parsed.value, fresh)
             ELSE sample

(* create(...): the initial state of the store over the item `stored` *)
create(stored, sample, fresh) ==
    [doc |-> loadFromStorage(stored, sample, fresh), template |-> Str("classic")]

(* saveToStorage without its clearTimeout: the earlier timer stays set *)
saveToStorageNoClear(d) ==
    LET id == hist.commits + 1
    IN  [timers |-> timers
                     \cup {[id |-> id, due |-> now + AUTOSAVE_DELAY, doc |-> d.val, at |-> d.at]},
         saveTimeout |-> id]

(* saveToStorage that returns while a timer is pending: the first save of *)
(* a run stays, with its document                                         *)
saveToStorageKeepsFirst(d) ==
    LET id == hist.commits + 1
    IN  IF timers # {} THEN [timers |-> timers, saveTimeout |-> saveTimeout]
        ELSE [timers |-> {[id |-> id, due |-> now + AUTOSAVE_DELAY, doc |-> d.val, at |-> d.at]},
              saveTimeout |-> id]

(* saveToStorage that saves the document with a savedAt stamp of its own *)
saveToStorageStamps(d) ==
    LET id == hist.commits + 1
    IN  [timers |-> {t \in timers : t.id # saveTimeout}
                     \cup {[id |-> id, due |-> now + AUTOSAVE_DELAY,
                            doc |-> With(d.val, "savedAt", Num(now)), at |-> d.at]},
         saveTimeout |-> id]

(* saveToStorage(doc): clears the timer saveTimeout names and sets a new  *)
(* one, whose id is the number of the commit it saves.                    *)
saveToStorage(d) ==
    LET id == hist.commits + 1
    IN  [timers |-> {t \in timers : t.id # saveTimeout}
                     \cup {[id |-> id, due |-> now + AUTOSAVE_DELAY, doc |-> d.val, at |-> d.at]},
         saveTimeout |-> id]

(* newDoc = doc in place of the deep clone: the same objects *)
JsonCloneAlias(r) == r

(* JSON.parse(JSON.stringify(doc)): a copy that shares no object *)
JsonClone(r) == Ref(JSONparse(JSONstringify(r.val)).value, FreshAt(1))

(* The stamp set on newDoc itself: no new document object *)
updatedDocInPlace(newDoc) ==
    Ref(With(newDoc.val, "meta", With(Get(newDoc.val, "meta"), "updatedAt", Num(now))), newDoc.at)

(* The updatedDoc of setDoc without the stamp: meta is newDoc's *)
updatedDocNoStamp(newDoc) ==
    Ref(With(newDoc.val, "meta", Spread(Get(newDoc.val, "meta"), EmptyObj)),
        [top |-> Fresh("top", 2), meta |-> Fresh("meta", 2),
         theme |-> newDoc.at.theme, sections |-> newDoc.at.sections])

(* The updatedDoc of setDoc: a new document object and a new meta object  *)
(* around the theme and sections of newDoc.                               *)
updatedDoc(newDoc) ==
    Ref(With(newDoc.val, "meta", With(Get(newDoc.val, "meta"), "updatedAt", Num(now))),
        [top |-> Fresh("top", 2), meta |-> Fresh("meta", 2),
         theme |-> newDoc.at.theme, sections |-> newDoc.at.sections])


-----------------------------------------------------------------------------
(* store/useEditorStore: the updater functions handed to setDoc.  Each    *)
(* takes cur, the reference to state.doc, and yields the reference it     *)
(* returns (ref), the in-place edits it made on the way (edits) and the   *)
(* error it threw, "" for none.                                           *)

Returned(r, edits) == [ref |-> r, edits |-> edits, threw |-> ""]
Threw(cur, msg) == [ref |-> cur, edits |-> <<>>, threw |-> msg]

(* d with the content of its sections array replaced: an edit inside the array *)
WithSectionList(d, secs) ==
    Obj([d.v EXCEPT !.sections = [d.v.sections EXCEPT !.v = secs]])

(* d with the blocks array of its section si holding blks *)
WithBlockList(d, si, blks) ==
    LET sec == Sections(d)[si]
        sec2 == Obj([sec.v EXCEPT !.blocks = [sec.v.blocks EXCEPT !.v = blks]])
    IN  WithSectionList(d, [Sections(d) EXCEPT ![si] = sec2])

SectionsEdit(r) == [part |-> "sections", at |-> r.at.sections, val |-> r.val.v.sections]

(* updateField that hands the block, not block.fields, to deepSet *)
updateFieldOnBlock(cur, sectionId, blockId, path, value) ==
    LET newDoc == JsonClone(cur)
        si == FindSection(newDoc.val, sectionId)
        section == Sections(newDoc.val)[si]
        bi == FindBlock(section, blockId)
        block == Blocks(section)[bi]
        set == deepSet(block, path, value)
        after == Ref(WithBlockList(newDoc.val, si, [Blocks(section) EXCEPT ![bi] = set.obj]),
                     newDoc.at)
    IN  IF si = 0 THEN Returned(cur, <<>>)
        ELSE IF bi = 0 THEN Returned(cur, <<>>)
        ELSE IF set.threw # "" THEN Threw(cur, set.threw)
        ELSE Returned(after, <<SectionsEdit(after)>>)

(* updateField that sets the path on an empty record and makes it the fields *)
updateFieldFreshFields(cur, sectionId, blockId, path, value) ==
    LET newDoc == JsonClone(cur)
        si == FindSection(newDoc.val, sectionId)
        section == Sections(newDoc.val)[si]
        bi == FindBlock(section, blockId)
        block == Blocks(section)[bi]
        set == deepSet(EmptyObj, path, value)
        block2 == SetProp(block, "fields", set.obj)
        after == Ref(WithBlockList(newDoc.val, si, [Blocks(section) EXCEPT ![bi] = block2]),
                     newDoc.at)
    IN  IF si = 0 THEN Returned(cur, <<>>)
        ELSE IF bi = 0 THEN Returned(cur, <<>>)
        ELSE IF set.threw # "" THEN Threw(cur, set.threw)
        ELSE Returned(after, <<SectionsEdit(after)>>)

(* updateField that catches the error of deepSet and returns the clone *)
updateFieldCatches(cur, sectionId, blockId, path, value) ==
    LET newDoc == JsonClone(cur)
        si == FindSection(newDoc.val, sectionId)
        section == Sections(newDoc.val)[si]
        bi == FindBlock(section, blockId)
        block == Blocks(section)[bi]
        set == deepSet(Get(block, "fields"), path, value)
        block2 == SetProp(block, "fields", set.obj)
        after == Ref(WithBlockList(newDoc.val, si, [Blocks(section) EXCEPT ![bi] = block2]),
                     newDoc.at)
    IN  IF si = 0 THEN Returned(cur, <<>>)
        ELSE IF bi = 0 THEN Returned(cur, <<>>)
        ELSE IF set.threw # "" THEN Returned(newDoc, <<>>)
        ELSE Returned(after, <<SectionsEdit(after)>>)

updateField(cur, sectionId, blockId, path, value) ==
    LET newDoc == JsonClone(cur)
        si == FindSection(newDoc.val, sectionId)
        section == Sections(newDoc.val)[si]
        bi == FindBlock(section, blockId)
        block == Blocks(section)[bi]
        set == deepSet(Get(block, "fields"), path, value)
        block2 == SetProp(block, "fields", set.obj)
        after == Ref(WithBlockList(newDoc.val, si, [Blocks(section) EXCEPT ![bi] = block2]),
                     newDoc.at)
    IN  IF si = 0 THEN Returned(cur, <<>>)
        ELSE IF bi = 0 THEN Returned(cur, <<>>)
        ELSE IF set.threw # "" THEN Threw(cur, set.threw)
        ELSE Returned(after, <<SectionsEdit(after)>>)

(* newBlock without the id: the template as it came *)
newBlockKeepsId(tmpl, rnd) == tmpl

(* The newBlock of addBlock *)
newBlock(tmpl, rnd) == With(tmpl, "id", Str(uid(Get(tmpl, "type"), rnd)))

addBlock(cur, sectionId, tmpl, rnd) ==
    LET newDoc == JsonClone(cur)
        si == FindSection(newDoc.val, sectionId)
        section == Sections(newDoc.val)[si]
        after == Ref(WithBlockList(newDoc.val, si, Append(Blocks(section), newBlock(tmpl, rnd))),
                     newDoc.at)
    IN  IF si = 0 THEN Returned(cur, <<>>)
        ELSE IF tmpl.t \in {"undefined", "null"} THEN Threw(cur, "TypeError")
        ELSE Returned(after, <<SectionsEdit(after)>>)

(* removeBlock with the filter turned round: the named Blocks stay *)
removeBlockKeepsNamed(cur, sectionId, blockId) ==
    LET newDoc == JsonClone(cur)
        si == FindSection(newDoc.val, sectionId)
        section == Sections(newDoc.val)[si]
        keep == SelectSeq(Blocks(section), LAMBDA b : Get(b, "id") = blockId)
        sec2 == With(section, "blocks", Arr(keep))
        after == Ref(WithSectionList(newDoc.val, [Sections(newDoc.val) EXCEPT ![si] = sec2]),
                     newDoc.at)
    IN  IF si = 0 THEN Returned(cur, <<>>)
        ELSE Returned(after, <<SectionsEdit(after)>>)

removeBlock(cur, sectionId, blockId) ==
    LET newDoc == JsonClone(cur)
        si == FindSection(newDoc.val, sectionId)
        section == Sections(newDoc.val)[si]
        keep == SelectSeq(Blocks(section), LAMBDA b : Get(b, "id") # blockId)
        sec2 == With(section, "blocks", Arr(keep))
        after == Ref(WithSectionList(newDoc.val, [Sections(newDoc.val) EXCEPT ![si] = sec2]),
                     newDoc.at)
    IN  IF si = 0 THEN Returned(cur, <<>>)
        ELSE Returned(after, <<SectionsEdit(after)>>)

(* sectionMap.get(id): a Map built from entries keeps the last entry of a key *)
sectionMapGet(d, id) ==
    LET hits == {i \in 1..Len(Sections(d)) : Get(Sections(d)[i], "id") = id}
    IN  IF hits = {} THEN Undefined
        ELSE Sections(d)[CHOOSE i \in hits : \A j \in hits : j <= i]

(* reorderSections that filters the sections by membership: the listed *)
(* sections in their old order                                         *)
reorderSectionsByFilter(cur, newOrderIds) ==
    LET newDoc == JsonClone(cur)
        list == Arr(SelectSeq(Sections(newDoc.val),
                              LAMBDA sec : \E i \in 1..Len(newOrderIds) : newOrderIds[i] = Get(sec, "id")))
        arrAt == Fresh("sections", 2)
        after == Ref(With(newDoc.val, "sections", list),
                     [newDoc.at EXCEPT !.sections = arrAt])
    IN  Returned(after, <<[part |-> "top", at |-> newDoc.at.top, key |-> "sections",
                           val |-> list, newAt |-> arrAt]>>)

reorderSections(cur, newOrderIds) ==
    LET newDoc == JsonClone(cur)
        mapped == [i \in 1..Len(newOrderIds) |-> sectionMapGet(newDoc.val, newOrderIds[i])]
        list == Arr(SelectSeq(mapped, Truthy))
        arrAt == Fresh("sections", 2)
        after == Ref(With(newDoc.val, "sections", list),
                     [newDoc.at EXCEPT !.sections = arrAt])
    IN  Returned(after, <<[part |-> "top", at |-> newDoc.at.top, key |-> "sections",
                           val |-> list, newAt |-> arrAt]>>)

(* doc.theme?.group *)
ThemeGroup(d, group) ==
    IF Get(d, "theme").t \in {"undefined", "null"} THEN Undefined
    ELSE Get(Get(d, "theme"), group)

(* setTheme with the top-level spread alone: a group of the patch replaces the group *)
setThemeShallow(cur, partialTheme) ==
    IF partialTheme.t \in {"undefined", "null"} THEN Threw(cur, "TypeError")
    ELSE Returned(Ref(With(cur.val, "theme", Spread(Get(cur.val, "theme"), partialTheme)),
                      [cur.at EXCEPT !.top = Fresh("top", 1), !.theme = Fresh("theme", 1)]),
                  <<>>)

setTheme(cur, partialTheme) ==
    LET theme == Spread(Spread(Get(cur.val, "theme"), partialTheme),
                   Obj([colors |-> Spread(ThemeGroup(cur.val, "colors"), Get(partialTheme, "colors")),
                        spacing |-> Spread(ThemeGroup(cur.val, "spacing"), Get(partialTheme, "spacing")),
                        layout |-> Spread(ThemeGroup(cur.val, "layout"), Get(partialTheme, "layout"))]))
    IN  IF partialTheme.t \in {"undefined", "null"} THEN Threw(cur, "TypeError")
        ELSE Returned(Ref(With(cur.val, "theme", theme),
                          [cur.at EXCEPT !.top = Fresh("top", 1), !.theme = Fresh("theme", 1)]),
                      <<>>)

(* resetToSample that sets the sampleResume object itself *)
resetDocToSampleItself(sample, rnd) == sample

(* The document resetToSample sets, from the sampleResume object as it is now *)
resetDoc(sample, rnd) ==
    Ref(Spread(sample.val,
               Obj([id |-> Str(uid(Str("resume"), rnd)),
                    meta |-> Spread(Get(sample.val, "meta"),
                                    Obj([createdAt |-> Num(now), updatedAt |-> Num(now)]))])),
        [sample.at EXCEPT !.top = Fresh("top", 1), !.meta = Fresh("meta", 1)])


-----------------------------------------------------------------------------
(* Inputs of the calls *)

(* Results of Math.random().toString(36).slice(2, 10) *)
RandomSuffixes == {"k3j9x2ab", "q7w1e5rt"}

(* A block template a section editor hands to addBlock *)
e2eTemplate ==
    Obj([id |-> Str("tmp"), type |-> Str("experience"), fields |-> Obj([role |-> Str("Eng")])])

(* A template without an id, as a section editor's "add" button makes it *)
skillsTemplate ==
    Obj([type |-> Str("skills"),
         fields |-> Obj([category |-> Str("Tools"), items |-> Arr(<<Str("Git")>>)])])

(* A template that has no fields *)
bareTemplate == Obj([type |-> Str("summary")])

UpdateCall(sectionId, blockId, path, value) ==
    [sectionId |-> Str(sectionId), blockId |-> Str(blockId), path |-> Str(path), value |-> value]

(* The calls of a specification: what each store operation is called with. *)
(* CallInputs serves the specification of call sequences, SaveInputs the  *)
(* specification that follows the autosave timer through time.            *)
CallInputs ==
    [updateField |->
        {UpdateCall("header_section", "header_block_001", "name", Str("Jane Doe")),
         UpdateCall("header_section", "header_block_001", "name", Str("")),
         UpdateCall("header_section", "header_block_001", "links.web.url", Str("x.dev")),
         UpdateCall("header_section", "header_block_001", "links.web", Str("x.dev")),
         UpdateCall("header_section", "header_block_001", "id", Str("header_block_002")),
         UpdateCall("experience_section", "experience_block_001", "highlights.0", Str("Led")),
         UpdateCall("experience_section", uid(Str("experience"), "k3j9x2ab"), "role", Str("CTO")),
         UpdateCall("header_section", "experience_block_001", "name", Str("Jane Doe")),
         UpdateCall("education_section", "header_block_001", "name", Str("Jane Doe")),
         UpdateCall("summary_section", uid(Str("summary"), "q7w1e5rt"), "text", Str("Hi")),
         [sectionId |-> Str("header_section"), blockId |-> Str("header_block_001"),
          path |-> Num(123), value |-> Str("Jane Doe")]},
     addBlock |->
        {[sectionId |-> Str("summary_section"), tmpl |-> bareTemplate, rnd |-> "q7w1e5rt"]}
        \cup
        {[sectionId |-> Str(sid), tmpl |-> e2eTemplate, rnd |-> rnd] :
            sid \in {"experience_section", "education_section"}, rnd \in RandomSuffixes}
        \cup {[sectionId |-> Str("skills_section"), tmpl |-> skillsTemplate, rnd |-> "q7w1e5rt"]},
     removeBlock |->
        {[sectionId |-> Str("experience_section"), blockId |-> Str(bid)] :
            bid \in {"experience_block_001", uid(Str("experience"), "k3j9x2ab"), "header_block_001"}}
        \cup {[sectionId |-> Str("education_section"), blockId |-> Str("experience_block_001")]},
     reorderSections |->
        {<<>>,
         <<Str("experience_section"), Str("header_section")>>,
         <<Str("header_section"), Str("header_section")>>,
         <<Str("skills_section"), Str("education_section"), Str("summary_section")>>},
     setTheme |->
        {Obj([fontFamily |-> Str("Georgia, serif")]),
         Obj([colors |-> Obj([accent |-> Str("#111")])]),
         Obj([spacing |-> Obj([sectionY |-> Num(32), itemY |-> Num(8)]), fontScale |-> Num(2)]),
         Obj([layout |-> Obj([paper |-> Str("Letter")]), lineHeight |-> Num(2)])},
     setTemplate |-> {Str("classic"), Str("modern"), Str("minimal")},
     resetToSample |-> RandomSuffixes]

SaveInputs ==
    [updateField |->
        {UpdateCall("header_section", "header_block_001", "name", Str("Jane Doe")),
         UpdateCall("education_section", "header_block_001", "name", Str("Jane Doe"))},
     addBlock |-> {[sectionId |-> Str("experience_section"), tmpl |-> e2eTemplate, rnd |-> "k3j9x2ab"]},
     removeBlock |-> {[sectionId |-> Str("experience_section"), blockId |-> Str("experience_block_001")]},
     reorderSections |-> {<<Str("experience_section"), Str("header_section")>>},
     setTheme |-> {Obj([colors |-> Obj([accent |-> Str("#111")])])},
     setTemplate |-> {Str("modern")},
     resetToSample |-> {"q7w1e5rt"}]

(* A document saved by an earlier session *)
persistedDoc ==
    Obj([id |-> Str("resume_a1b2c3d4"),
         meta |-> Obj([title |-> Str("John Anderson Resume"),
                       createdAt |-> Num(0 - 2000), updatedAt |-> Num(0 - 1000)]),
         theme |-> defaultTheme,
         sections |-> Arr(<<
            Section("header_section", "header", "Header", <<
              Block("header_block_001", "header", Obj([name |-> Str("Ann Lee")])) >>),
            Section("experience_section", "experience", "Professional Experience", <<
              Block("experience_block_001", "experience",
                    Obj([role |-> Str("Engineer"), highlights |-> Arr(<<Str("Shipped")>>)])) >>) >>)])

InitialStorage == {NoItem, JSONstringify(persistedDoc)}

-----------------------------------------------------------------------------
(* The state machine *)

NoAt == [p \in Parts |-> 0]
At1 == [p \in Parts |-> 1]
At2 == [p \in Parts |-> 2]
NoTmplAt == [at |-> 0, si |-> 0, bi |-> 0]

(* hist: ops counts the store calls, commits the commits of setDoc;       *)
(* committed is the document of the last commit, made at commitAt as the  *)
(* burst-th commit of a run of commits less than AUTOSAVE_DELAY apart;    *)
(* callbacks counts the timer callbacks run since; resetSeq is the number *)
(* of commits made before the last resetToSample (-1 for none);           *)
(* storedSeq is the commit whose document localStorage holds (0 for what  *)
(* it held at first, or nothing); failed is whether a write has failed.   *)
NoHistory ==
    [ops |-> 0, commits |-> 0, committed |-> Undefined, commitAt |-> 0 - 1, burst |-> 0,
     callbacks |-> 0, resetSeq |-> 0 - 1, storedSeq |-> 0, failed |-> FALSE]

(* No call of deepSet has been made from outside the store *)
NoDeepSet ==
    [target |-> Undefined, before |-> Undefined, path |-> Undefined, value |-> Undefined,
     returned |-> Undefined, threw |-> "", calls |-> 0]

(* No request has reached the server *)
NoRequest ==
    [requests |-> 0, input |-> Undefined, apiKey |-> FALSE, upstream |-> Undefined,
     geminiCalls |-> 0, fetches |-> 0, called |-> FALSE, fetched |-> FALSE,
     result |-> Undefined, error |-> "", status |-> 0, body |-> Undefined]

(* HeaderSection is not mounted *)
NoForm == [mounted |-> FALSE, values |-> <<>>, edits |-> 0, pending |-> <<>>, block |-> Undefined]

Cur == Ref(doc, addr.doc)
SampleRef == Ref(sampleResume, addr.sample)

Init ==
    /\ now = 0
    /\ sampleResume = sampleResumeAt(0)
    /\ storage \in InitialStorage
    /\ LET store == create(storage, Ref(sampleResumeAt(0), At1), At2)
       IN  /\ doc = store.doc.val
           /\ template = store.template
           /\ addr = [doc |-> store.doc.at, sample |-> At1, snap |-> NoAt, tmpl |-> NoTmplAt]
    /\ timers = {}
    /\ saveTimeout = 0
    /\ snap = Undefined
    /\ blockTemplate = Undefined
    /\ last = [op |-> "create", args |-> [stored |-> storage], pre |-> Undefined,
                tpl |-> Undefined, threw |-> "", at |-> 0]
    /\ hist = NoHistory
    /\ ds = NoDeepSet
    /\ ai = NoRequest
    /\ form = NoForm

(* What the edits of a call do to the caller's block template: its fields *)
(* object is the fields object of block (si, bi) of the sections array at *)
(* addr.tmpl.at.                                                          *)
PokeTemplate(tmpl, where, edits) ==
    LET hits == {i \in 1..Len(edits) : edits[i].part = "sections" /\ edits[i].at = where.at}
        e == edits[CHOOSE i \in hits : \A j \in hits : j <= i]
    IN  IF where.at = 0 \/ hits = {} THEN tmpl
        ELSE IF Get(tmpl, "fields").t \notin {"object", "array"} THEN tmpl
        ELSE IF where.si > Len(e.val.v) THEN tmpl
        ELSE IF where.bi > Len(Blocks(e.val.v[where.si])) THEN tmpl
        ELSE With(tmpl, "fields", Get(Blocks(e.val.v[where.si])[where.bi], "fields"))

(* setDoc(updater), where the updater returned u.  call names the store   *)
(* operation and its arguments; tmpl and where are the caller's block     *)
(* template and the block that holds its fields object.                   *)
SetDoc(call, u, tmpl, where) ==
    LET ud == updatedDoc(u.ref)
        sv == saveToStorage(ud)
        prev == PokeAll(Cur, u.edits)
        smp == PokeAll(SampleRef, u.edits)
    IN  /\ hist.ops < MaxOps
        /\ last' = [op |-> call.op, args |-> call.args, pre |-> doc, tpl |-> template,
                    threw |-> u.threw, at |-> now]
        /\ UNCHANGED <<template, storage, now, ds, ai>>
        /\ IF u.threw # ""
           THEN /\ UNCHANGED <<doc, timers, saveTimeout, sampleResume>>
                /\ snap' = doc
                /\ blockTemplate' = tmpl
                /\ addr' = [addr EXCEPT !.snap = addr.doc, !.tmpl = where]
                /\ hist' = [hist EXCEPT !.ops = @ + 1]
           ELSE /\ doc' = ud.val
                /\ timers' = {[t EXCEPT !.doc = PokeAll(Ref(t.doc, t.at), u.edits).val,
                                        !.at = PokeAll(Ref(t.doc, t.at), u.edits).at] : t \in sv.timers}
                /\ saveTimeout' = sv.saveTimeout
                /\ sampleResume' = smp.val
                /\ snap' = prev.val
                /\ blockTemplate' = PokeTemplate(tmpl, where, u.edits)
                /\ addr' = [doc |-> ud.at, sample |-> smp.at, snap |-> prev.at, tmpl |-> where]
                /\ hist' = [hist EXCEPT !.ops = @ + 1, !.commits = @ + 1, !.committed = ud.val,
                                        !.commitAt = now, !.callbacks = 0,
                                        !.burst = IF hist.commits > 0 /\ now - hist.commitAt < AUTOSAVE_DELAY
                                                  THEN @ + 1 ELSE 1]

UpdateField(sectionId, blockId, path, value) ==
    /\ SetDoc([op |-> "updateField",
               args |-> [sectionId |-> sectionId, blockId |-> blockId, path |-> path, value |-> value]],
              updateField(Cur, sectionId, blockId, path, value),
              blockTemplate, addr.tmpl)
    /\ UNCHANGED form

AddBlock(sectionId, tmpl, rnd) ==
    LET u == addBlock(Cur, sectionId, tmpl, rnd)
        si == FindSection(u.ref.val, sectionId)
    IN  /\ \A i \in 1..Len(Sections(doc)) : Len(Blocks(Sections(doc)[i])) < MaxBlocks
        /\ SetDoc([op |-> "addBlock", args |-> [sectionId |-> sectionId, tmpl |-> tmpl, rnd |-> rnd]],
                  u, tmpl,
                  IF u.edits = <<>> THEN NoTmplAt
                  ELSE [at |-> u.ref.at.sections, si |-> si,
                        bi |-> Len(Blocks(Sections(u.ref.val)[si]))])
        /\ UNCHANGED form

RemoveBlock(sectionId, blockId) ==
    /\ SetDoc([op |-> "removeBlock", args |-> [sectionId |-> sectionId, blockId |-> blockId]],
              removeBlock(Cur, sectionId, blockId), blockTemplate, addr.tmpl)
    /\ UNCHANGED form

ReorderSections(newOrderIds) ==
    /\ SetDoc([op |-> "reorderSections", args |-> [newOrderIds |-> newOrderIds]],
              reorderSections(Cur, newOrderIds), blockTemplate, addr.tmpl)
    /\ UNCHANGED form

SetTheme(partialTheme) ==
    /\ SetDoc([op |-> "setTheme", args |-> [partialTheme |-> partialTheme]],
              setTheme(Cur, partialTheme), blockTemplate, addr.tmpl)
    /\ UNCHANGED form

(* setTemplate that also clears the pending autosave timer *)
SetTemplateClearsTimer(name) ==
    /\ hist.ops < MaxOps
    /\ template' = name
    /\ timers' = {t \in timers : t.id # saveTimeout}
    /\ snap' = doc
    /\ addr' = [addr EXCEPT !.snap = addr.doc]
    /\ last' = [op |-> "setTemplate", args |-> [name |-> name], pre |-> doc, tpl |-> template,
                threw |-> "", at |-> now]
    /\ hist' = [hist EXCEPT !.ops = @ + 1]
    /\ UNCHANGED <<doc, storage, saveTimeout, now, sampleResume, blockTemplate, ds, ai, form>>

SetTemplate(name) ==
    /\ hist.ops < MaxOps
    /\ template' = name
    /\ snap' = doc
    /\ addr' = [addr EXCEPT !.snap = addr.doc]
    /\ last' = [op |-> "setTemplate", args |-> [name |-> name], pre |-> doc, tpl |-> template,
                threw |-> "", at |-> now]
    /\ hist' = [hist EXCEPT !.ops = @ + 1]
    /\ UNCHANGED <<doc, storage, timers, saveTimeout, now, sampleResume, blockTemplate, ds, ai, form>>

ResetToSample(rnd) ==
    LET r == resetDoc(SampleRef, rnd)
    IN  /\ hist.ops < MaxOps
        /\ storage' = NoItem
        /\ doc' = r.val
        /\ template' = Str("classic")
        /\ snap' = doc
        /\ addr' = [addr EXCEPT !.doc = r.at, !.snap = addr.doc]
        /\ last' = [op |-> "resetToSample", args |-> [rnd |-> rnd], pre |-> doc, tpl |-> template,
                    threw |-> "", at |-> now]
        /\ hist' = [hist EXCEPT !.ops = @ + 1, !.resetSeq = hist.commits, !.storedSeq = 0]
        /\ UNCHANGED <<timers, saveTimeout, now, sampleResume, blockTemplate, ds, ai, form>>

(* The callback that writes the template selector with the document *)
saveCallbackWithTemplate(t, ok) ==
    [storage |-> IF ok THEN JSONstringify(With(t.doc, "template", template)) ELSE storage,
     threw |-> ""]

(* The callback without its try/catch: the error of setItem leaves it *)
saveCallbackUncaught(t, ok) ==
    [storage |-> IF ok THEN JSONstringify(t.doc) ELSE storage,
     threw |-> IF ok THEN "" ELSE "QuotaExceededError"]

(* The callback saveToStorage hands to setTimeout, run for the timer t;   *)
(* ok is whether localStorage.setItem returns rather than throws.  The    *)
(* try/catch logs the error: nothing is thrown out of the callback.       *)
saveCallback(t, ok) ==
    [storage |-> IF ok THEN JSONstringify(t.doc) ELSE storage, threw |-> ""]

Autosave(t, ok) ==
    /\ t \in timers
    /\ now >= t.due
    /\ timers' = timers \ {t}
    /\ storage' = saveCallback(t, ok).storage
    /\ last' = [op |-> "autosave", args |-> [id |-> t.id, due |-> t.due, ok |-> ok],
                pre |-> doc, tpl |-> template, threw |-> saveCallback(t, ok).threw, at |-> now]
    /\ hist' = [hist EXCEPT !.storedSeq = IF ok THEN t.id ELSE @,
                            !.callbacks = @ + 1,
                            !.failed = @ \/ ~ok]
    /\ UNCHANGED <<doc, template, saveTimeout, now, sampleResume, snap, blockTemplate, addr, ds, ai, form>>

(* Date.now() moves on by one step, up to limit *)
Tick(limit) ==
    /\ now + TickStep <= limit
    /\ now' = now + TickStep
    /\ UNCHANGED <<doc, template, storage, timers, saveTimeout, sampleResume, snap,
                   blockTemplate, addr, last, hist, ds, ai, form>>

(* A call of one store operation, with inputs from I *)
Call(I) ==
    \/ \E c \in I.updateField : UpdateField(c.sectionId, c.blockId, c.path, c.value)
    \/ \E c \in I.addBlock : AddBlock(c.sectionId, c.tmpl, c.rnd)
    \/ \E c \in I.removeBlock : RemoveBlock(c.sectionId, c.blockId)
    \/ \E newOrderIds \in I.reorderSections : ReorderSections(newOrderIds)
    \/ \E partialTheme \in I.setTheme : SetTheme(partialTheme)
    \/ \E name \in I.setTemplate : SetTemplate(name)
    \/ \E rnd \in I.resetToSample : ResetToSample(rnd)

(* The store with its autosave timer, through time *)
Next ==
    \/ Call(SaveInputs)
    \/ \E t \in timers, ok \in BOOLEAN : Autosave(t, ok)
    \/ Tick(MaxTime)

Spec == Init /\ [][Next]_vars

(* The store with calls up to MaxCallTime and time running on until a     *)
(* timer set by the last of them is due.  Time passes and a timer that is *)
(* due runs its callback: the browser's event loop runs every timer.      *)
NextLive ==
    \/ (now <= MaxCallTime /\ Call(SaveInputs))
    \/ \E t \in timers, ok \in BOOLEAN : Autosave(t, ok)
    \/ Tick(MaxCallTime + AUTOSAVE_DELAY)

SpecLive ==
    /\ Init
    /\ [][NextLive]_vars
    /\ WF_vars(Tick(MaxCallTime + AUTOSAVE_DELAY))
    /\ WF_vars(\E t \in timers : Autosave(t, TRUE))

(* Sequences of calls made before any autosave timer is due: the timer's  *)
(* callback reads the document and writes only to localStorage.           *)
NextCalls ==
    \/ Call(CallInputs)
    \/ Tick(MaxCallTime)

SpecCalls == Init /\ [][NextCalls]_vars


-----------------------------------------------------------------------------
(* Creation of the store over any stored item *)

IdInputs == {Undefined, Null, Str("resume_a1b2c3d4"), Str(""), Num(42), Num(0), Bool(TRUE), EmptyObj}

SectionsInputs ==
    {Undefined, Null, Arr(<<>>), sampleSections, Str("[]"), Num(1), EmptyObj}

ParsedInputs ==
    {Null, Num(0), Num(7), Str("resume"), Bool(TRUE), Arr(<<>>)}
    \cup {JsonValue(Obj([id |-> id, sections |-> sections, meta |-> meta])) :
            id \in IdInputs, sections \in SectionsInputs,
            meta \in {Undefined, Obj([title |-> Str("CV")])}}

StoredInputs == {NoItem, EmptyText, GarbageText} \cup {JSONstringify(x) : x \in ParsedInputs}

(* The page is about to evaluate the store module *)
InitLoad ==
    /\ now = 0
    /\ sampleResume = sampleResumeAt(0)
    /\ storage \in StoredInputs
    /\ doc = Undefined
    /\ addr = [doc |-> NoAt, sample |-> At1, snap |-> NoAt, tmpl |-> NoTmplAt]
    /\ template = Undefined
    /\ timers = {}
    /\ saveTimeout = 0
    /\ snap = Undefined
    /\ blockTemplate = Undefined
    /\ last = [op |-> "boot", args |-> [stored |-> storage], pre |-> Undefined,
               tpl |-> Undefined, threw |-> "", at |-> 0]
    /\ hist = NoHistory
    /\ ds = NoDeepSet
    /\ ai = NoRequest
    /\ form = NoForm

(* create(...): the initial state of the store *)
CreateStore ==
    LET store == create(storage, SampleRef, At2)
    IN  /\ last.op = "boot"
        /\ doc' = store.doc.val
        /\ template' = store.template
        /\ addr' = [addr EXCEPT !.doc = store.doc.at]
        /\ last' = [last EXCEPT !.op = "create"]
        /\ UNCHANGED <<storage, timers, saveTimeout, now, sampleResume, snap, blockTemplate, hist, ds, ai, form>>

SpecLoad == InitLoad /\ [][CreateStore]_vars


-----------------------------------------------------------------------------
(* Calls of deepSet on an object the caller holds *)

TargetInputs ==
    {Undefined, Null, Str("string"), Num(5), Bool(TRUE),
     EmptyObj,
     Obj([a |-> Num(1)]),
     Obj([a |-> Obj([b |-> Num(1)])]),
     Obj([a |-> Obj([x |-> Num(1)])]),
     Obj([a |-> Obj([b |-> Obj([c |-> Str("old")])])]),
     Obj([items |-> Arr(<<Obj([name |-> Str("first")])>>)]),
     Obj([a |-> Str("text"), list |-> Null]),
     Arr(<<Num(1)>>)}

PathInputs ==
    {Str("b"), Str("a"), Str("a.c"), Str("a.b.c"), Str("items.0.name"), Str("list.0"), Str(""),
     Num(123), Undefined}

ValueInputs == {Num(2), Str("value"), Obj([y |-> Num(2)]), Undefined}

(* The store module is not loaded; a caller holds a target object *)
InitDeepSet ==
    /\ now = 0
    /\ sampleResume = sampleResumeAt(0)
    /\ storage = NoItem
    /\ doc = Undefined
    /\ addr = [doc |-> NoAt, sample |-> At1, snap |-> NoAt, tmpl |-> NoTmplAt]
    /\ template = Undefined
    /\ timers = {}
    /\ saveTimeout = 0
    /\ snap = Undefined
    /\ blockTemplate = Undefined
    /\ last = [op |-> "boot", args |-> [stored |-> storage], pre |-> Undefined,
               tpl |-> Undefined, threw |-> "", at |-> 0]
    /\ hist = NoHistory
    /\ \E target \in TargetInputs : ds = [NoDeepSet EXCEPT !.target = target, !.before = target]
    /\ ai = NoRequest
    /\ form = NoForm

(* deepSet(target, path, value) called on the object the caller holds *)
DeepSetCall(path, value) ==
    LET r == deepSet(ds.target, path, value)
    IN  /\ ds.calls < MaxDeepSetCalls
        /\ ds' = [target |-> r.obj, before |-> ds.target, path |-> path, value |-> value,
                  returned |-> r.ret, threw |-> r.threw, calls |-> ds.calls + 1]
        /\ UNCHANGED <<doc, template, storage, timers, saveTimeout, now, sampleResume, snap,
                       blockTemplate, addr, last, hist, ai, form>>

NextDeepSet == \E path \in PathInputs, value \in ValueInputs : DeepSetCall(path, value)

SpecDeepSet == InitDeepSet /\ [][NextDeepSet]_vars


-----------------------------------------------------------------------------
(* components/editor/sections/HeaderSection over the store *)

(* The fields of the form, in the order of defaultValues *)
HeaderFields == <<"name", "title", "email", "phone", "location", "linkedin", "website">>

(* xs.find(x => x.type === 'header'): its index, 0 for none *)
FindHeader(xs) ==
    LET hits == {i \in 1..Len(xs) : Get(xs[i], "type") = Str("header")}
    IN  IF hits = {} THEN 0 ELSE CHOOSE i \in hits : \A j \in hits : i <= j

(* headerSection and headerBlock of a render over document d *)
HeaderOf(d) ==
    LET si == FindHeader(Sections(d))
        bi == IF si = 0 THEN 0 ELSE FindHeader(Blocks(Sections(d)[si]))
    IN  [found |-> si # 0 /\ bi # 0,
         sectionId |-> IF si = 0 THEN Undefined ELSE Get(Sections(d)[si], "id"),
         blockId |-> IF si = 0 \/ bi = 0 THEN Undefined ELSE Get(Blocks(Sections(d)[si])[bi], "id"),
         fields |-> IF si = 0 \/ bi = 0 THEN Undefined
                    ELSE Get(Blocks(Sections(d)[si])[bi], "fields")]

(* The effect's test without value !== '' *)
headerEffectAnyValue(value, currentValue) == value # currentValue

(* The test of the first effect: value !== currentValue && value !== '' *)
headerEffect(value, currentValue) == value # currentValue /\ value # Str("")

(* The component mounts: useForm takes its defaultValues from the header  *)
(* block, and both effects run and find nothing to do.                    *)
Mount ==
    /\ ~form.mounted
    /\ last.op = "create"
    /\ form' = [mounted |-> TRUE,
                values |-> [f \in {HeaderFields[i] : i \in 1..Len(HeaderFields)} |->
                              IF Truthy(Get(HeaderOf(doc).fields, f))
                              THEN Get(HeaderOf(doc).fields, f) ELSE Str("")],
                edits |-> 0, pending |-> <<>>, block |-> HeaderOf(doc)]
    /\ UNCHANGED <<doc, template, storage, timers, saveTimeout, now, sampleResume, snap,
                   blockTemplate, addr, last, hist, ds, ai>>

(* The user changes one input: the component renders over the current    *)
(* Document and the first effect starts on the entries of the form.       *)
Type(field, text) ==
    /\ form.mounted
    /\ form.pending = <<>>
    /\ form.edits < MaxEdits
    /\ form.values[field] # Str(text)
    /\ form' = [form EXCEPT !.values[field] = Str(text),
                            !.edits = @ + 1,
                            !.pending = IF HeaderOf(doc).found THEN HeaderFields ELSE <<>>,
                            !.block = HeaderOf(doc)]
    /\ UNCHANGED <<doc, template, storage, timers, saveTimeout, now, sampleResume, snap,
                   blockTemplate, addr, last, hist, ds, ai>>

(* One entry of the forEach of the first effect *)
EffectEntry ==
    /\ form.pending # <<>>
    /\ LET field == Head(form.pending)
           value == form.values[field]
           currentValue == Get(form.block.fields, field)
       IN  IF headerEffect(value, currentValue)
           THEN SetDoc([op |-> "updateField",
                        args |-> [sectionId |-> form.block.sectionId, blockId |-> form.block.blockId,
                                  path |-> Str(field), value |-> value]],
                       updateField(Cur, form.block.sectionId, form.block.blockId, Str(field), value),
                       blockTemplate, addr.tmpl)
           ELSE UNCHANGED <<doc, template, storage, timers, saveTimeout, now, sampleResume, snap,
                            blockTemplate, addr, last, hist, ds, ai>>
    /\ form' = [form EXCEPT !.pending = Tail(@)]

(* What the user types *)
TextInputs == {"", "Ann Lee"}

NextForm ==
    \/ Mount
    \/ \E i \in 1..Len(HeaderFields), text \in TextInputs : Type(HeaderFields[i], text)
    \/ EffectEntry

SpecForm == Init /\ [][NextForm]_vars

-----------------------------------------------------------------------------
(* The server: ai/gemini.js and POST /api/ai/describe *)

(* Strings: s.includes(sub), s.startsWith(pre), s.indexOf(sub, from) (1-based, *)
(* 0 when absent), s.trim() and s.split('\n')                                  *)
IndexOf(s, sub, from) ==
    LET hits == {i \in from..(Len(s) - Len(sub) + 1) : SubSeq(s, i, i + Len(sub) - 1) = sub}
    IN  IF hits = {} THEN 0 ELSE CHOOSE i \in hits : \A j \in hits : i <= j

Includes(s, sub) == IndexOf(s, sub, 1) # 0

StartsWith(s, pre) == Len(pre) <= Len(s) /\ SubSeq(s, 1, Len(pre)) = pre

Trim(s) ==
    LET ink == {i \in 1..Len(s) : SubSeq(s, i, i) \notin {" ", "\n", "\t"}}
        lo == CHOOSE i \in ink : \A j \in ink : i <= j
        hi == CHOOSE i \in ink : \A j \in ink : j <= i
    IN  IF ink = {} THEN "" ELSE SubSeq(s, lo, hi)

Lines(s) ==
    LET n == Len(s)
        cuts == {0} \cup {i \in 1..n : SubSeq(s, i, i) = "\n"} \cup {n + 1}
        Nth(k) == CHOOSE c \in cuts : Cardinality({d \in cuts : d < c}) = k - 1
    IN  [k \in 1..(Cardinality(cuts) - 1) |-> SubSeq(s, Nth(k) + 1, Nth(k + 1) - 1)]

validSections == {"experience", "education", "project", "certification", "achievement"}

validateGeminiInput(input) ==
    IF ~Truthy(input) \/ ~TypeofObject(input) THEN FALSE
    ELSE Get(input, "section") \in {Str(x) : x \in validSections}

(* x || fallback inside a template literal, for a string or an absent x *)
OrText(x, fallback) == IF Truthy(x) THEN x.v ELSE fallback

mockBullets ==
    Arr(<<Str("Led cross-functional team initiatives and improved operational efficiency"),
          Str("Implemented innovative solutions that enhanced user experience and satisfaction"),
          Str("Collaborated with stakeholders to deliver projects on time and within budget")>>)

getMockResponse(input) ==
    LET section == Get(input, "section")
        role == Get(input, "role")
        organization == Get(input, "organization")
        wantBullets == Get(input, "wantBullets")
        mockResponses ==
          Obj([experience |->
                 Obj([paragraph |-> Str("Contributed to " \o OrText(organization, "the organization")
                        \o " as " \o OrText(role, "a team member")
                        \o ", delivering high-quality solutions and collaborating effectively with cross-functional teams to achieve project objectives and drive business growth."),
                      bullets |-> IF Truthy(wantBullets) THEN mockBullets ELSE Undefined]),
               education |->
                 Obj([paragraph |-> Str("Completed " \o OrText(role, "degree program") \o " at "
                        \o OrText(organization, "the institution")
                        \o ", gaining comprehensive knowledge in relevant coursework and developing strong analytical and problem-solving skills through academic projects and research.")]),
               project |->
                 Obj([paragraph |-> Str("Developed and delivered " \o OrText(role, "project") \o " for "
                        \o OrText(organization, "client")
                        \o ", demonstrating technical expertise and project management skills while ensuring quality deliverables and stakeholder satisfaction.")]),
               certification |->
                 Obj([paragraph |-> Str("Earned " \o OrText(role, "certification") \o " from "
                        \o OrText(organization, "issuing organization")
                        \o ", demonstrating commitment to professional development and expertise in industry-standard practices and methodologies.")]),
               achievement |->
                 Obj([paragraph |-> Str("Recognized for " \o OrText(role, "achievement") \o " by "
                        \o OrText(organization, "the organization")
                        \o ", highlighting exceptional performance and contribution to team success and organizational objectives.")])])
        hit == IF section.t = "string" THEN Get(mockResponses, section.v) ELSE Undefined
    IN  IF Truthy(hit) THEN hit ELSE Get(mockResponses, "experience")

OpenTag == "<<PARAGRAPH>>"
CloseTag == "<<END>>"

(* parseGeminiResponse(text, expectBullets) for a string text *)
parseGeminiResponse(text, expectBullets) ==
    LET start == IndexOf(text, OpenTag, 1)
        stop == IF start = 0 THEN 0 ELSE IndexOf(text, CloseTag, start + Len(OpenTag))
        tagged == IF stop = 0 THEN "" ELSE Trim(SubSeq(text, start + Len(OpenTag), stop - 1))
        IsText(line) == Trim(line) # "" /\ ~StartsWith(Trim(line), "-")
        lines == SelectSeq(Lines(text), IsText)
        first == IF lines = <<>> THEN "" ELSE Trim(lines[1])
        head == Trim(SubSeq(text, 1, IF Len(text) < 200 THEN Len(text) ELSE 200))
        paragraph == IF tagged # "" THEN tagged ELSE IF first # "" THEN first ELSE head
        IsBullet(line) == Len(line) >= 3 /\ SubSeq(line, 1, 2) = "- "
        bulletMatches == SelectSeq(Lines(text), IsBullet)
        kept == IF Len(bulletMatches) < 3 THEN Len(bulletMatches) ELSE 3
        bullets == Arr([i \in 1..kept |->
                          Str(Trim(SubSeq(bulletMatches[i], 3, Len(bulletMatches[i]))))])
    IN  IF Truthy(expectBullets) /\ bulletMatches # <<>>
        THEN Obj([paragraph |-> Str(paragraph), bullets |-> bullets])
        ELSE Obj([paragraph |-> Str(paragraph)])

(* A destructuring default: x = d *)
Default(x, d) == IF x.t = "undefined" THEN d ELSE x

GeminiReturned(result, fetched) == [threw |-> "", result |-> result, fetched |-> fetched]
GeminiThrew(message, fetched) == [threw |-> message, result |-> Undefined, fetched |-> fetched]

(* geminiDescribe(input) with process.env.GEMINI_API_KEY set or not, and  *)
(* what fetch does: upstream.kind is "failed" when fetch rejects, else     *)
(* upstream is the response, its data what response.json() resolves to     *)
(* (undefined when the body is not JSON).                                  *)
geminiDescribe(input, apiKey, upstream) ==
    LET skills == Default(Get(input, "skills"), Arr(<<>>))
        wantBullets == Default(Get(input, "wantBullets"), Bool(FALSE))
        data == upstream.data
        upstreamMessage == Get(Get(data, "error"), "message")
        candidates == Get(data, "candidates")
        generatedText == Get(Get(Get(Get(Get(candidates, "0"), "content"), "parts"), "0"), "text")
    IN  IF ~apiKey THEN GeminiReturned(getMockResponse(input), FALSE)
        ELSE IF skills.t = "null"
             THEN GeminiThrew("Cannot read properties of null (reading 'length')", FALSE)
        ELSE IF skills.t = "string" /\ skills.v # ""
             THEN GeminiThrew("skills.join is not a function", FALSE)
        ELSE IF upstream.kind = "failed" THEN GeminiThrew("fetch failed", TRUE)
        ELSE IF ~upstream.ok
             THEN GeminiThrew("Gemini API error: " \o upstream.status \o " " \o upstream.statusText
                                \o " - " \o OrText(upstreamMessage, "Unknown error"), TRUE)
        ELSE IF data.t = "undefined"
             THEN GeminiThrew("Unexpected token < in JSON at position 0", TRUE)
        ELSE IF ~Truthy(candidates) \/ (IsArray(candidates) /\ Len(candidates.v) = 0)
             THEN GeminiThrew("No response generated from Gemini API", TRUE)
        ELSE IF ~Truthy(generatedText)
             THEN GeminiThrew("Invalid response format from Gemini API", TRUE)
        ELSE GeminiReturned(parseGeminiResponse(generatedText.v, wantBullets), TRUE)

Answer(status, body, g, called) ==
    [status |-> status, body |-> body, called |-> called, fetched |-> g.fetched,
     result |-> g.result, error |-> g.threw]

Rejected(message) ==
    Answer(400, Obj([ok |-> Bool(FALSE), error |-> Str(message)]), GeminiReturned(Undefined, FALSE), FALSE)

Failed(status, message, g) ==
    Answer(status, Obj([ok |-> Bool(FALSE), error |-> Str(message)]), g, TRUE)

(* The handler without its check of role and organization *)
describeWithoutContext(input, apiKey, upstream) ==
    LET g == geminiDescribe(input, apiKey, upstream)
        bullets == Get(g.result, "bullets")
    IN  IF ~validateGeminiInput(input)
        THEN Rejected("Invalid input. Section is required and must be one of: experience, education, project, certification, achievement")
        ELSE IF g.threw = ""
             THEN Answer(200, Obj([ok |-> Bool(TRUE), paragraph |-> Get(g.result, "paragraph"),
                                   bullets |-> IF Truthy(bullets) THEN bullets ELSE Null]), g, TRUE)
        ELSE IF Includes(g.threw, "GEMINI_API_KEY")
             THEN Failed(500, "AI service is not configured. Please contact support.", g)
        ELSE IF Includes(g.threw, "Gemini API error")
             THEN Failed(502, "AI service temporarily unavailable. Please try again.", g)
        ELSE Failed(500, "Failed to generate description. Please try again.", g)

(* The handler of POST /api/ai/describe for req.body = input *)
describe(input, apiKey, upstream) ==
    LET needsContext == /\ Get(input, "section") \in {Str("experience"), Str("education")}
                        /\ ~Truthy(Get(input, "role"))
                        /\ ~Truthy(Get(input, "organization"))
        g == geminiDescribe(input, apiKey, upstream)
        bullets == Get(g.result, "bullets")
    IN  IF ~validateGeminiInput(input)
        THEN Rejected("Invalid input. Section is required and must be one of: experience, education, project, certification, achievement")
        ELSE IF needsContext /\ Get(input, "section") = Str("experience")
             THEN Rejected("Role or organization is required for experience descriptions")
        ELSE IF needsContext
             THEN Rejected("Degree/program or school is required for education descriptions")
        ELSE IF g.threw = ""
             THEN Answer(200, Obj([ok |-> Bool(TRUE), paragraph |-> Get(g.result, "paragraph"),
                                   bullets |-> IF Truthy(bullets) THEN bullets ELSE Null]), g, TRUE)
        ELSE IF Includes(g.threw, "GEMINI_API_KEY")
             THEN Failed(500, "AI service is not configured. Please contact support.", g)
        ELSE IF Includes(g.threw, "Gemini API error")
             THEN Failed(502, "AI service temporarily unavailable. Please try again.", g)
        ELSE Failed(500, "Failed to generate description. Please try again.", g)

(* Request bodies *)
BodyInputs ==
    {Undefined, Null, Str("experience"), Arr(<<Str("experience")>>), EmptyObj,
     Obj([section |-> Str("skills"), role |-> Str("Engineer")]),
     Obj([section |-> Str("experience")]),
     Obj([section |-> Str("experience"), role |-> Str(""), wantBullets |-> Bool(TRUE)]),
     Obj([section |-> Str("education"), location |-> Str("Lahore")]),
     Obj([section |-> Str("experience"), role |-> Str("Engineer"), wantBullets |-> Bool(TRUE)]),
     Obj([section |-> Str("experience"), organization |-> Str("Acme"), wantBullets |-> Bool(FALSE)]),
     Obj([section |-> Str("experience"), role |-> Str("Engineer"), skills |-> Str("Go")]),
     Obj([section |-> Str("education"), role |-> Str("BSc"), wantBullets |-> Bool(TRUE)]),
     Obj([section |-> Str("education"), organization |-> Str("MIT")]),
     Obj([section |-> Str("project"), wantBullets |-> Bool(TRUE)]),
     Obj([section |-> Str("achievement"), role |-> Str("Award")])}

(* The body of an upstream response that carries a generated text *)
Generated(text) ==
    Obj([candidates |-> Arr(<<Obj([content |-> Obj([parts |-> Arr(<<Obj([text |-> Str(text)])>>)])])>>)])

UpstreamResponse(ok, status, statusText, data) ==
    [kind |-> "response", ok |-> ok, status |-> status, statusText |-> statusText, data |-> data]

(* What the text-generation service does with a request *)
UpstreamInputs ==
    {[kind |-> "failed", ok |-> FALSE, status |-> "", statusText |-> "", data |-> Undefined],
     UpstreamResponse(FALSE, "503", "Service Unavailable", Obj([error |-> Obj([message |-> Str("overloaded")])])),
     UpstreamResponse(FALSE, "429", "Too Many Requests", Undefined),
     UpstreamResponse(TRUE, "200", "OK", Undefined),
     UpstreamResponse(TRUE, "200", "OK", Obj([candidates |-> Arr(<<>>)])),
     UpstreamResponse(TRUE, "200", "OK", Obj([candidates |-> Arr(<<EmptyObj>>)])),
     UpstreamResponse(TRUE, "200", "OK",
        Generated("<<PARAGRAPH>> Led the platform team. <<END>>\n- Cut build time by 40%\n- Mentored 5 engineers\n- Shipped 3 products\n- Won an award")),
     UpstreamResponse(TRUE, "200", "OK", Generated("<<PARAGRAPH>>Studied computer science.<<END>>")),
     UpstreamResponse(TRUE, "200", "OK", Generated("Built a compiler.\n- One thing"))}

(* The server is up; the editor's store is not part of it *)
InitServer ==
    /\ now = 0
    /\ sampleResume = sampleResumeAt(0)
    /\ storage = NoItem
    /\ doc = Undefined
    /\ addr = [doc |-> NoAt, sample |-> At1, snap |-> NoAt, tmpl |-> NoTmplAt]
    /\ template = Undefined
    /\ timers = {}
    /\ saveTimeout = 0
    /\ snap = Undefined
    /\ blockTemplate = Undefined
    /\ last = [op |-> "boot", args |-> [stored |-> storage], pre |-> Undefined,
               tpl |-> Undefined, threw |-> "", at |-> 0]
    /\ hist = NoHistory
    /\ ds = NoDeepSet
    /\ ai = NoRequest
    /\ form = NoForm

(* One request to POST /api/ai/describe, from its arrival to its response *)
Describe(input, apiKey, upstream) ==
    LET r == describe(input, apiKey, upstream)
    IN  /\ ai.requests < MaxRequests
        /\ ai' = [requests |-> ai.requests + 1, input |-> input, apiKey |-> apiKey,
                  upstream |-> upstream,
                  geminiCalls |-> ai.geminiCalls + (IF r.called THEN 1 ELSE 0),
                  fetches |-> ai.fetches + (IF r.fetched THEN 1 ELSE 0),
                  called |-> r.called, fetched |-> r.fetched,
                  result |-> r.result, error |-> r.error,
                  status |-> r.status, body |-> r.body]
        /\ UNCHANGED <<doc, template, storage, timers, saveTimeout, now, sampleResume, snap,
                       blockTemplate, addr, last, hist, ds, form>>

NextServer ==
    \E input \in BodyInputs, apiKey \in BOOLEAN, upstream \in UpstreamInputs :
        Describe(input, apiKey, upstream)

SpecServer == InitServer /\ [][NextServer]_vars

-----------------------------------------------------------------------------
(* Claims *)

SetDocOps == {"updateField", "addBlock", "removeBlock", "reorderSections", "setTheme"}
StoreOps == SetDocOps \cup {"setTemplate", "resetToSample"}

Distinct(q) == \A i, j \in 1..Len(q) : i # j => q[i] # q[j]

(* The last call named a Section id that the document before it lacks *)
SectionMiss ==
    /\ last.op \in {"updateField", "addBlock", "removeBlock"}
    /\ FindSection(last.pre, last.args.sectionId) = 0

(* The last call named a Section of the document and a Block id that the Section lacks *)
BlockMiss ==
    /\ last.op \in {"updateField", "removeBlock"}
    /\ FindSection(last.pre, last.args.sectionId) # 0
    /\ FindBlock(Sections(last.pre)[FindSection(last.pre, last.args.sectionId)],
                 last.args.blockId) = 0

(* C1: after a call of updateField, addBlock or removeBlock that names a  *)
(* Section id absent from the Document (or, for updateField and           *)
(* removeBlock, a Block id absent from the named Section), the store's    *)
(* Document equals the Document before the call in every field,           *)
(* meta.updatedAt included, and nothing was thrown.                       *)
C1_NoOpOnMiss ==
    (SectionMiss \/ BlockMiss) => (doc = last.pre /\ last.threw = "")

(* C2: once resetToSample has returned, localStorage holds nothing unless *)
(* it holds a Document committed after the reset: a save pending at the   *)
(* reset never writes the earlier Document back.                          *)
C2_ResetDiscardsForGood ==
    hist.resetSeq >= 0 => (storage = NoItem \/ hist.storedSeq > hist.resetSeq)

(* The stored item parses to a value whose id is a string and whose sections is a sequence *)
WellFormedStored(stored) ==
    /\ JSONparse(stored).ok
    /\ TypeofString(Get(JSONparse(stored).value, "id"))
    /\ IsArray(Get(JSONparse(stored).value, "sections"))

(* C4: the store created over a stored item holds the parsed item only    *)
(* when it parses, its id is a string and its sections is a sequence;     *)
(* over every other item it holds the sample Document, unchanged.         *)
C4_LoadTrustsOnlyWellFormed ==
    last.op = "create" =>
        /\ (doc # sampleResumeAt(0)) => WellFormedStored(last.args.stored)
        /\ ~WellFormedStored(last.args.stored) => doc = sampleResumeAt(0)
        /\ sampleResume = sampleResumeAt(0)

(* C6: the Section ids of the Document are pairwise distinct and the      *)
(* Block ids within each Section are pairwise distinct, after any         *)
(* sequence of store calls from a Document where they are.                *)
C6_IdsUnique ==
    /\ Distinct(SectionIds(doc))
    /\ \A i \in 1..Len(Sections(doc)) : Distinct(BlockIds(Sections(doc)[i]))


(* C3: of a run of commits less than AUTOSAVE_DELAY apart only the last   *)
(* is written, once, no sooner than AUTOSAVE_DELAY after it: at most one  *)
(* timer is set, it is the last commit's, and the one callback that runs  *)
(* writes the Document of the last commit.                                *)
C3_DebounceCollapsesBursts ==
    /\ Cardinality(timers) <= 1
    /\ \A t \in timers : /\ t.id = hist.commits
                         /\ t.due = hist.commitAt + AUTOSAVE_DELAY
                         /\ t.doc = hist.committed
    /\ hist.callbacks <= 1
    /\ last.op = "autosave" =>
          /\ last.args.id = hist.commits
          /\ now >= hist.commitAt + AUTOSAVE_DELAY
          /\ last.args.ok => storage = JSONstringify(hist.committed)

(* A run of two commits has been written *)
C3_Witness ==
    /\ last.op = "autosave"
    /\ last.args.ok
    /\ hist.burst >= 2
    /\ hist.storedSeq = hist.commits
    /\ storage = JSONstringify(doc)

(* C5: a failed write throws nothing and leaves the Document and the      *)
(* template as they were; after it every commit still sets its timer, and *)
(* a later write that succeeds stores the Document of the last commit.    *)
C5_WriteFailureIsContained ==
    /\ (last.op = "autosave" /\ ~last.args.ok) =>
          (last.threw = "" /\ doc = last.pre /\ template = last.tpl)
    /\ (hist.failed /\ last.op \in SetDocOps /\ last.threw = "") =>
          (doc = hist.committed /\ \E t \in timers : t.id = hist.commits /\ t.doc = doc)
    /\ (hist.failed /\ last.op = "autosave" /\ last.args.ok) =>
          storage = JSONstringify(hist.committed)

(* A write failed and the write of a later commit succeeded *)
C5_Witness ==
    /\ hist.failed
    /\ last.op = "autosave"
    /\ last.args.ok
    /\ hist.commits = 2
    /\ storage = JSONstringify(doc)

(* C7: after every store call the Document that was current before the    *)
(* call, the sampleResume object and the caller's block template are what *)
(* they were: no call edits them in place.                                *)
C7_SnapshotIsolation ==
    /\ sampleResume = sampleResumeAt(0)
    /\ blockTemplate \in {Undefined} \cup {c.tmpl : c \in CallInputs.addBlock}
    /\ last.op \in StoreOps => snap = last.pre

(* A field of the block that addBlock made from the caller's template was set *)
C7_Witness ==
    /\ last.op = "updateField"
    /\ last.args.blockId = Str(uid(Str("experience"), "k3j9x2ab"))
    /\ Get(doc, "sections") # Get(last.pre, "sections")
    /\ blockTemplate = e2eTemplate

Keys(x) == IF x.t = "object" THEN DOMAIN x.v ELSE {}

(* C8: setTheme merges colors, spacing and layout key by key, keeps a     *)
(* group the patch omits, and takes fontFamily and fontScale from the     *)
(* patch when it has them.                                                *)
C8_ThemeGroupMerge ==
    (last.op = "setTheme" /\ last.threw = "") =>
        LET old == Get(last.pre, "theme")
            new == Get(doc, "theme")
            patch == last.args.partialTheme
        IN  /\ \A g \in {"colors", "spacing", "layout"} :
                  /\ \A k \in Keys(Get(old, g)) \ Keys(Get(patch, g)) :
                        Get(Get(new, g), k) = Get(Get(old, g), k)
                  /\ \A k \in Keys(Get(patch, g)) :
                        Get(Get(new, g), k) = Get(Get(patch, g), k)
                  /\ Keys(Get(new, g)) = Keys(Get(old, g)) \cup Keys(Get(patch, g))
            /\ \A f \in {"fontFamily", "fontScale"} :
                  Get(new, f) = IF f \in Keys(patch) THEN Get(patch, f) ELSE Get(old, f)

(* The accent colour was patched and the other colours are still there *)
C8_Witness ==
    /\ last.op = "setTheme"
    /\ last.args.partialTheme = Obj([colors |-> Obj([accent |-> Str("#111")])])
    /\ Get(Get(doc, "theme"), "colors") =
          Obj([primary |-> Str("hsl(var(--brand))"), accent |-> Str("#111"),
               muted |-> Str("hsl(var(--muted))")])

(* C9: reorderSections leaves exactly the listed ids that some Section    *)
(* has, in the order of the list, each with a Section of the Document as  *)
(* it was; unlisted Sections are gone and unknown ids are skipped.        *)
C9_ReorderFollowsList ==
    (last.op = "reorderSections" /\ last.threw = "") =>
        LET known == SelectSeq(last.args.newOrderIds,
                               LAMBDA id : FindSection(last.pre, id) # 0)
        IN  /\ Len(Sections(doc)) = Len(known)
            /\ \A k \in 1..Len(known) :
                  /\ Get(Sections(doc)[k], "id") = known[k]
                  /\ \E i \in 1..Len(Sections(last.pre)) :
                        Sections(doc)[k] = JsonValue(Sections(last.pre)[i])

(* Two Sections were listed in the reverse of their order and the others left out *)
C9_Witness ==
    /\ last.op = "reorderSections"
    /\ Len(Sections(last.pre)) = 4
    /\ last.args.newOrderIds = <<Str("experience_section"), Str("header_section")>>
    /\ SectionIds(doc) = <<"experience_section", "header_section">>

(* A Document with the fields of every Block blanked *)
BlankFields(d) ==
    LET blank(b) == SetProp(b, "fields", Null)
        sec(x) == SetProp(x, "blocks", Arr([j \in 1..Len(Blocks(x)) |-> blank(Blocks(x)[j])]))
    IN  SetProp(d, "sections", Arr([i \in 1..Len(Sections(d)) |-> sec(Sections(d)[i])]))

(* A Document with the fields of every Block and meta.updatedAt blanked *)
Skeleton(d) == SetProp(BlankFields(d), "meta", SetProp(Get(d, "meta"), "updatedAt", Null))

IdsKept ==
    /\ Get(doc, "id") = Get(last.pre, "id")
    /\ SectionIds(doc) = SectionIds(last.pre)
    /\ \A i \in 1..Len(Sections(doc)) :
          BlockIds(Sections(doc)[i]) = BlockIds(Sections(last.pre)[i])

(* C10: updateField leaves the Document id, the sequence of Section ids   *)
(* and the sequence of Block ids of every Section as they were; it        *)
(* changes nothing but the fields of Blocks and meta.updatedAt, which     *)
(* every call stamps.                                                     *)
C10_UpdateFieldKeepsIds ==
    last.op = "updateField" => (IdsKept /\ Skeleton(doc) = Skeleton(last.pre))

(* C10 as stated: updateField keeps the ids and changes nothing but the   *)
(* fields of Blocks.                                                      *)
C10_OnlyBlockFieldsChange ==
    last.op = "updateField" => (IdsKept /\ BlankFields(doc) = BlankFields(last.pre))

(* The path "id" was set: the Block has its id and its fields have the value *)
C10_Witness ==
    /\ last.op = "updateField"
    /\ last.args.path = Str("id")
    /\ last.threw = ""
    /\ BlockIds(Sections(doc)[1]) = <<"header_block_001">>
    /\ Get(Get(Blocks(Sections(doc)[1])[1], "fields"), "id") = Str("header_block_002")
    /\ Get(Get(doc, "meta"), "updatedAt") # Get(Get(last.pre, "meta"), "updatedAt")

(* The Section the last call named, before the call and after it *)
HitIndex == FindSection(last.pre, last.args.sectionId)
SectionBefore == Sections(last.pre)[HitIndex]
SectionAfter == Sections(doc)[HitIndex]

(* Outside the block sequence of the named Section the sections are as before *)
OtherSectionsKept ==
    /\ Len(Sections(doc)) = Len(Sections(last.pre))
    /\ \A i \in 1..Len(Sections(doc)) : i # HitIndex => Sections(doc)[i] = Sections(last.pre)[i]
    /\ SetProp(SectionAfter, "blocks", Null) = SetProp(SectionBefore, "blocks", Null)

(* C11: addBlock on a Section of the Document appends one Block to that   *)
(* Section; its id is the template's type, "_" and the generated suffix,  *)
(* whatever id the template had; its type and fields are the template's;  *)
(* the Blocks before it and the other Sections are as they were.          *)
C11_AddBlockAppendsOne ==
    (last.op = "addBlock" /\ HitIndex # 0) =>
        LET old == Blocks(SectionBefore)
            new == Blocks(SectionAfter)
            tmpl == last.args.tmpl
            added == new[Len(new)]
        IN  /\ last.threw = ""
            /\ OtherSectionsKept
            /\ Len(new) = Len(old) + 1
            /\ SubSeq(new, 1, Len(old)) = old
            /\ Get(added, "id") = Str(Get(tmpl, "type").v \o "_" \o last.args.rnd)
            /\ Get(added, "type") = Get(tmpl, "type")
            /\ Get(added, "fields") = Get(tmpl, "fields")

(* The template with id "tmp" was added after the Block of the experience Section *)
C11_Witness ==
    /\ last.op = "addBlock"
    /\ Get(last.args.tmpl, "id") = Str("tmp")
    /\ HitIndex # 0
    /\ BlockIds(SectionAfter) = <<"experience_block_001", "experience_k3j9x2ab">>
    /\ Get(Blocks(SectionAfter)[2], "fields") = Obj([role |-> Str("Eng")])

(* C12: removeBlock on a Section of the Document removes from it the      *)
(* Blocks whose id is blockId and no other: the rest keep contents and    *)
(* order; the other Sections, the theme, the Document id and              *)
(* meta.createdAt are as they were; with no such Block the block sequence *)
(* is as it was; nothing is thrown.                                       *)
C12_RemoveBlockRemovesNamed ==
    (last.op = "removeBlock" /\ HitIndex # 0) =>
        LET old == Blocks(SectionBefore)
            new == Blocks(SectionAfter)
        IN  /\ last.threw = ""
            /\ OtherSectionsKept
            /\ new = SelectSeq(old, LAMBDA b : Get(b, "id") # last.args.blockId)
            /\ (FindBlock(SectionBefore, last.args.blockId) = 0 => new = old)
            /\ Get(doc, "theme") = Get(last.pre, "theme")
            /\ Get(doc, "id") = Get(last.pre, "id")
            /\ Get(Get(doc, "meta"), "createdAt") = Get(Get(last.pre, "meta"), "createdAt")

(* Of two Blocks of a Section the named one was removed *)
C12_Witness ==
    /\ last.op = "removeBlock"
    /\ HitIndex # 0
    /\ BlockIds(SectionBefore) = <<"experience_block_001", "experience_k3j9x2ab">>
    /\ last.args.blockId = Str("experience_block_001")
    /\ BlockIds(SectionAfter) = <<"experience_k3j9x2ab">>

(* A step that is the call of the store operation op *)
Called(op) == hist'.ops = hist.ops + 1 /\ last'.op = op

UpdatedAt(d) == Get(Get(d, "meta"), "updatedAt")
CreatedAt(d) == Get(Get(d, "meta"), "createdAt")

(* C13: setTemplate sets the template selector and nothing else: the      *)
(* Document is as it was, no timer is set, cleared or set again, and      *)
(* localStorage is not written.                                           *)
C13_SetTemplateOnlySelector ==
    [][Called("setTemplate") =>
          /\ template' = last'.args.name
          /\ doc' = doc
          /\ timers' = timers
          /\ saveTimeout' = saveTimeout
          /\ storage' = storage]_vars

(* The template was set while a save was pending, and the save still is *)
C13_Witness ==
    /\ last.op = "setTemplate"
    /\ template = Str("modern")
    /\ last.tpl = Str("classic")
    /\ doc = last.pre
    /\ \E t \in timers : t.doc = doc /\ t.id = saveTimeout

(* A save of the current Document, set at the current time, is pending after the step *)
SavePending == \E t \in timers' : t.doc = doc' /\ t.due = now + AUTOSAVE_DELAY /\ t.id = saveTimeout'

(* C14: an operation that commits through setDoc (updateField, addBlock,  *)
(* removeBlock, reorderSections, setTheme) leaves meta.updatedAt at the   *)
(* time of the call and a save of exactly the new Document pending;       *)
(* resetToSample sets the Document directly: meta.updatedAt is the time   *)
(* of the call, no save is scheduled and the timers are as they were.     *)
C14_CommitsThroughSetDoc ==
    [][/\ (\E op \in SetDocOps : Called(op)) /\ last'.threw = "" =>
             (UpdatedAt(doc') = Num(now) /\ SavePending)
       /\ Called("resetToSample") =>
             (UpdatedAt(doc') = Num(now) /\ timers' = timers /\ saveTimeout' = saveTimeout)]_vars

(* C14 as stated: resetToSample too leaves a save of the new Document pending *)
C14_EveryChangeCommitsThroughSetDoc ==
    [][(\E op \in SetDocOps \cup {"resetToSample"} : Called(op)) /\ last'.threw = "" =>
             (UpdatedAt(doc') = Num(now) /\ SavePending)]_vars

(* After a reset, a later call committed and its save is pending *)
C14_Witness ==
    /\ last.op = "updateField"
    /\ hist.resetSeq >= 0
    /\ last.at > 0
    /\ UpdatedAt(doc) = Num(last.at)
    /\ \E t \in timers : t.doc = doc /\ t.due = last.at + AUTOSAVE_DELAY

(* The store was created over an item that loadFromStorage did not return *)
StartupFallback ==
    /\ last.op = "create"
    /\ ~JSONparse(last.args.stored).ok \/ doc # JSONparse(last.args.stored).value

SampleContentKept ==
    /\ Get(doc, "sections") = Get(sampleResume, "sections")
    /\ Get(doc, "theme") = Get(sampleResume, "theme")

(* C15: when load falls back at startup the Document is the sampleResume  *)
(* object itself, with the sample's id and the timestamps the sample was  *)
(* made with; after resetToSample the Document has the id "resume_" and   *)
(* the generated suffix, createdAt and updatedAt at the time of the call; *)
(* in both cases its sections and theme are the sample's.                 *)
C15_SampleMaterialisation ==
    /\ StartupFallback => (doc = sampleResume /\ SampleContentKept)
    /\ last.op = "resetToSample" =>
          /\ Get(doc, "id") = Str("resume_" \o last.args.rnd)
          /\ Get(doc, "id") # Get(sampleResume, "id")
          /\ CreatedAt(doc) = Num(last.at)
          /\ UpdatedAt(doc) = Num(last.at)
          /\ SampleContentKept

(* C15 as stated: at startup too the Document has an id that is not the   *)
(* sample's.                                                              *)
C15_SampleHasFreshId ==
    (StartupFallback \/ last.op = "resetToSample") =>
        /\ Get(doc, "id") # Get(sampleResume, "id")
        /\ CreatedAt(doc) = Num(last.at)
        /\ UpdatedAt(doc) = Num(last.at)
        /\ SampleContentKept

(* The store started on the sample and was later reset *)
C15_Witness ==
    /\ last.op = "resetToSample"
    /\ last.at > 0
    /\ Get(last.pre, "id") = Str("sample_resume_001")
    /\ Get(doc, "id") = Str("resume_k3j9x2ab")
    /\ CreatedAt(doc) = Num(last.at)

(* C16: the template selector is 'classic' or 'modern' in every state *)
C16_TemplateEnumerated == template \in {Str("classic"), Str("modern")}

(* x[k1][k2]...[kn], undefined below a value that is no object *)
RECURSIVE GetPath(_, _)
GetPath(x, keys) == IF keys = <<>> THEN x ELSE GetPath(Get(x, keys[1]), Tail(keys))

Prefix(keys, i) == SubSeq(keys, 1, i)

(* Nothing, null, or a string, number or boolean *)
Scalar(x) == x.t \in {"undefined", "null", "string", "number", "boolean"}

OwnKeys(x) ==
    IF x.t = "object" THEN DOMAIN x.v
    ELSE IF x.t = "array" THEN {IndexKeys[i] : i \in 1..Len(x.v)} \cup DOMAIN x.p
    ELSE {}

(* The last call of deepSet returned *)
DeepSetReturned == ds.calls > 0 /\ ds.threw = ""

(* C17: after deepSet(target, "k1.k2...kn", value) target[k1]...[kn] is   *)
(* the value, and every slot before the last that was absent or held      *)
(* null, a string, a number or a boolean holds a new record with the next *)
(* key only; "a.b.c" on {} gives {a: {b: {c: value}}}.                    *)
C17_CreatesIntermediates ==
    DeepSetReturned =>
        LET keys == Split(ds.path.v)
        IN  /\ GetPath(ds.target, keys) = ds.value
            /\ \A i \in 1..(Len(keys) - 1) :
                  Scalar(GetPath(ds.before, Prefix(keys, i))) =>
                      /\ GetPath(ds.target, Prefix(keys, i)).t = "object"
                      /\ DOMAIN GetPath(ds.target, Prefix(keys, i)).v = {keys[i + 1]}
            /\ (ds.before = EmptyObj /\ ds.path = Str("a.b.c")) =>
                  ds.target = Obj([a |-> Obj([b |-> Obj([c |-> ds.value])])])

(* A string and a null on the way were replaced by records *)
C17_Witness ==
    /\ DeepSetReturned
    /\ ds.before = Obj([a |-> Str("text"), list |-> Null])
    /\ ds.path = Str("a.b.c")
    /\ ds.target = Obj([a |-> Obj([b |-> Obj([c |-> Str("value")])]), list |-> Null])

(* C18: the slot of the last key holds the given value and nothing of     *)
(* what it held: "a" of {a: {x: 1}} set to {y: 2} gives {a: {y: 2}}; the  *)
(* same call made again changes nothing.                                  *)
C18_LeafOverwrite ==
    DeepSetReturned =>
        LET keys == Split(ds.path.v)
            parent == GetPath(ds.target, Prefix(keys, Len(keys) - 1))
            again == deepSet(ds.target, ds.path, ds.value)
        IN  /\ Get(parent, keys[Len(keys)]) = ds.value
            /\ (ds.before = Obj([a |-> Obj([x |-> Num(1)])]) /\ ds.path = Str("a")) =>
                  ds.target = Obj([a |-> ds.value])
            /\ again.threw = ""
            /\ again.obj = ds.target

(* A record was overwritten by a record *)
C18_Witness ==
    /\ DeepSetReturned
    /\ ds.before = Obj([a |-> Obj([x |-> Num(1)])])
    /\ ds.path = Str("a")
    /\ ds.value = Obj([y |-> Num(2)])
    /\ ds.target = Obj([a |-> Obj([y |-> Num(2)])])

(* C19: deepSet returns its target; at every level of the path that was a *)
(* record or a sequence before, the value is of the same kind after and   *)
(* every key but the path's has the value it had.                         *)
C19_OnlyPathSlotsChange ==
    DeepSetReturned =>
        LET keys == Split(ds.path.v)
        IN  /\ ds.returned = ds.target
            /\ \A i \in 0..(Len(keys) - 1) :
                  LET old == GetPath(ds.before, Prefix(keys, i))
                      new == GetPath(ds.target, Prefix(keys, i))
                  IN  (\A j \in 0..i : ~Scalar(GetPath(ds.before, Prefix(keys, j)))) =>
                          /\ new.t = old.t
                          /\ \A k \in OwnKeys(old) \ {keys[i + 1]} : Get(new, k) = Get(old, k)
                          /\ old.t = "object" => DOMAIN new.v = DOMAIN old.v \cup {keys[i + 1]}

(* An element of a sequence was reached through its index and the sequence kept *)
C19_Witness ==
    /\ DeepSetReturned
    /\ ds.before = Obj([items |-> Arr(<<Obj([name |-> Str("first")])>>)])
    /\ ds.path = Str("items.0.name")
    /\ ds.target = Obj([items |-> Arr(<<Obj([name |-> Str("value")])>>)])
    /\ ds.returned = ds.target

(* C20: deepSet throws the target error for a target that is undefined,   *)
(* null, a string, a number or a boolean, whatever the path, and the path *)
(* error for an object target with a path that is no string; the target   *)
(* is then as it was.                                                     *)
C20_InvalidArguments ==
    ds.calls > 0 =>
        /\ Scalar(ds.before) => (ds.threw = TargetError /\ ds.target = ds.before)
        /\ (~Scalar(ds.before) /\ ds.path.t # "string") =>
              (ds.threw = PathError /\ ds.target = ds.before)
        /\ ds.threw # "" => ds.returned = Undefined

(* Target and path were both invalid *)
C20_Witness ==
    /\ ds.calls > 0
    /\ ds.before = Null
    /\ ds.path = Num(123)
    /\ ds.threw = TargetError
    /\ ds.target = Null

(* The step is a call of updateField that names a Block of the Document  *)
(* and hands deepSet a path that is no string or fields that are no       *)
(* object.                                                                *)
MalformedUpdate ==
    /\ Called("updateField")
    /\ FindSection(doc, last'.args.sectionId) # 0
    /\ LET section == Sections(doc)[FindSection(doc, last'.args.sectionId)]
           bi == FindBlock(section, last'.args.blockId)
       IN  /\ bi # 0
           /\ \/ last'.args.path.t # "string"
              \/ Scalar(Get(Blocks(section)[bi], "fields"))

(* C21: a call of updateField on a Block of the Document with a path that *)
(* is no string, or on a Block whose fields are no object, throws the     *)
(* error of deepSet and leaves the Document, the timers and localStorage  *)
(* as they were.                                                          *)
C21_MalformedUpdateThrows ==
    [][MalformedUpdate =>
          /\ last'.threw \in {TargetError, PathError}
          /\ doc' = doc
          /\ timers' = timers
          /\ saveTimeout' = saveTimeout
          /\ storage' = storage]_vars

(* A field of a Block without fields was set while a save was pending *)
C21_Witness ==
    /\ last.op = "updateField"
    /\ last.args.blockId = Str("summary_q7w1e5rt")
    /\ last.threw = TargetError
    /\ doc = last.pre
    /\ \E t \in timers : t.doc = doc /\ t.id = saveTimeout

(* localStorage holds the current Document, no save is pending, and      *)
(* loadFromStorage returns what it holds                                  *)
Persisted ==
    /\ timers = {}
    /\ storage = JSONstringify(doc)
    /\ loadFromStorage(storage, SampleRef, At2).val = JSONparse(storage).value
    /\ JSONparse(storage).value = doc

(* C22: once a Document has been committed through setDoc, then - unless  *)
(* resetToSample is called or a write fails - localStorage comes to hold  *)
(* the current Document and loadFromStorage returns it.                   *)
C22_EventuallyPersisted ==
    (hist.commits > 0) ~> (Persisted \/ hist.resetSeq >= 0 \/ hist.failed)

(* Two commits were made, no reset, no failed write, and the Document is stored *)
C22_Witness ==
    /\ Persisted
    /\ hist.commits = 2
    /\ hist.resetSeq < 0
    /\ ~hist.failed
    /\ last.op = "autosave"

(* What a reader finds at path keys of the fields of the Block that the   *)
(* ids name in Document d (undefined when a lookup misses)                 *)
ValueAt(d, sectionId, blockId, keys) ==
    LET si == FindSection(d, sectionId)
        bi == IF si = 0 THEN 0 ELSE FindBlock(Sections(d)[si], blockId)
    IN  IF si = 0 \/ bi = 0 THEN Undefined
        ELSE GetPath(Get(Blocks(Sections(d)[si])[bi], "fields"), keys)

(* The (section, block, path) slots that the calls of updateField name *)
FieldSlots ==
    {[sectionId |-> c.sectionId, blockId |-> c.blockId, keys |-> Split(c.path.v)] :
        c \in {x \in CallInputs.updateField : x.path.t = "string"}}

(* One path extends the other (or is the other) *)
Overlap(p, q) ==
    \/ Len(p) <= Len(q) /\ Prefix(q, Len(p)) = p
    \/ Len(q) <= Len(p) /\ Prefix(p, Len(q)) = q

(* A call of updateField found its Block and returned *)
UpdateHit ==
    /\ Called("updateField")
    /\ last'.threw = ""
    /\ FindSection(doc, last'.args.sectionId) # 0
    /\ FindBlock(Sections(doc)[FindSection(doc, last'.args.sectionId)], last'.args.blockId) # 0

(* The slots that hold a value before the call, in another Block, or in   *)
(* the same Block at a path that the predicate Apart tells from the path  *)
(* of the call                                                            *)
OtherSlots(Apart(_, _)) ==
    {f \in FieldSlots :
        /\ ValueAt(doc, f.sectionId, f.blockId, f.keys) # Undefined
        /\ \/ <<f.sectionId, f.blockId>> # <<last'.args.sectionId, last'.args.blockId>>
           \/ Apart(f.keys, Split(last'.args.path.v))}

SlotsKept(slots) ==
    \A f \in slots : ValueAt(doc', f.sectionId, f.blockId, f.keys)
                       = ValueAt(doc, f.sectionId, f.blockId, f.keys)

DifferentPath(p, q) == p # q
DisjointPath(p, q) == ~Overlap(p, q)

InvalidBody(input) ==
    \/ input.t # "object"
    \/ Get(input, "section") \notin {Str(x) : x \in validSections}
    \/ /\ Get(input, "section") \in {Str("experience"), Str("education")}
       /\ Get(input, "role") \in {Undefined, Str("")}
       /\ Get(input, "organization") \in {Undefined, Str("")}

C25_BulletsOnlyForExperience ==
    (ai.called /\ ai.error = "") =>
        LET bullets == Get(ai.result, "bullets")
        IN  /\ (~Truthy(Get(ai.input, "wantBullets")) \/ Get(ai.input, "section") # Str("experience"))
                  => bullets = Undefined
            /\ IsArray(bullets) => Len(bullets.v) <= 3

(* C26: a request that reaches geminiDescribe without a configured key is *)
(* answered 500 'AI service is not configured', one whose upstream        *)
(* response is not OK 502 'temporarily unavailable', any other failure    *)
(* the generic 500, and none of them with ok true.                        *)
C26_ThreeErrorOutcomes ==
    LET message == Get(ai.body, "error")
        Says(status, text) == /\ ai.status = status
                              /\ Get(ai.body, "ok") = Bool(FALSE)
                              /\ message.t = "string"
                              /\ Includes(message.v, text)
    IN  /\ (ai.called /\ ~ai.apiKey) => Says(500, "AI service is not configured")
        /\ (ai.fetched /\ ai.upstream.kind = "response" /\ ~ai.upstream.ok)
              => Says(502, "temporarily unavailable")
        /\ (ai.called /\ ai.apiKey /\ ai.error # "" /\ ~(ai.fetched /\ ai.upstream.kind = "response" /\ ~ai.upstream.ok))
              => Says(500, "Failed to generate description")

(* C27: a call that commits returns with the new Document current, its    *)
(* write pending and localStorage as it was; and whenever localStorage    *)
(* changes, it is emptied or it takes the Document of the last commit, so *)
(* that it holds at every moment what it held at startup, nothing, or a   *)
(* Document that the store had committed.                                 *)
C27_CommitPrecedesWrite ==
    [][/\ ((\E op \in SetDocOps : Called(op)) /\ last'.threw = "") =>
             /\ doc' = hist'.committed
             /\ storage' = storage
             /\ \E t \in timers' : t.doc = doc' /\ t.due > now
       /\ storage' # storage =>
             \/ storage' = NoItem
             \/ hist.commits > 0 /\ storage' = JSONstringify(hist.committed)]_vars

(* localStorage holds the Document of the first commit while the second   *)
(* commit is current and its write pending                                *)
C27_Witness ==
    /\ hist.commits = 2
    /\ hist.storedSeq = 1
    /\ last.op \in SetDocOps
    /\ doc = hist.committed
    /\ storage = JSONstringify(last.pre)
    /\ storage # JSONstringify(doc)
    /\ \E t \in timers : t.doc = doc

(* C28: the item in localStorage never carries the template selector,    *)
(* and a store created from it starts with template 'classic'.            *)
C28_TemplateNotPersisted ==
    /\ JSONparse(storage).ok => "template" \notin Keys(JSONparse(storage).value)
    /\ create(storage, SampleRef, At2).template = Str("classic")

(* 'modern' was selected, a Document committed after that was written,    *)
(* and a store created over the item would hold that Document             *)
C28_Witness ==
    /\ template = Str("modern")
    /\ last.op = "autosave"
    /\ last.args.ok
    /\ hist.commits > 0
    /\ storage = JSONstringify(doc)
    /\ create(storage, SampleRef, At2).doc.val = doc

(* C29: every call of updateField, addBlock, removeBlock, reorderSections *)
(* or setTheme that returns, a call whose lookup misses included, makes a *)
(* new document object current whose meta.updatedAt is the time of the    *)
(* call, and leaves exactly one timer: a save of that object, due a full  *)
(* delay after the call.                                                  *)
C29_EveryReturnCommits ==
    [][((\E op \in SetDocOps : Called(op)) /\ last'.threw = "") =>
          /\ UpdatedAt(doc') = Num(now)
          /\ addr'.doc.top # addr.doc.top
          /\ hist'.commits = hist.commits + 1
          /\ timers' = {[id |-> saveTimeout', due |-> now + AUTOSAVE_DELAY,
                         doc |-> doc', at |-> addr'.doc]}]_vars

(* A call that named no Section of the Document replaced a save that had  *)
(* half its delay left                                                    *)
C29_Witness ==
    /\ SectionMiss
    /\ last.threw = ""
    /\ hist.commits = 2
    /\ last.at = hist.commitAt
    /\ UpdatedAt(last.pre) = Num(last.at - TickStep)
    /\ UpdatedAt(doc) = Num(last.at)
    /\ \A t \in timers : t.doc = doc /\ t.due = last.at + AUTOSAVE_DELAY
    /\ timers # {}

(* A field of the header block holds a value other than the empty string *)
HeaderHolds(d, field) == Get(HeaderOf(d).fields, field) \notin {Undefined, Str("")}

(* C30: HeaderSection calls updateField only with a value that is not the *)
(* empty string and differs from the stored value, and a header field     *)
(* that holds a non-empty value holds one after every step of the form.   *)
C30_FormNeverEmpties ==
    [][/\ Called("updateField") =>
             /\ last'.args.value # Str("")
             /\ last'.args.value
                  # ValueAt(doc, last'.args.sectionId, last'.args.blockId, <<last'.args.path.v>>)
       /\ \A i \in 1..Len(HeaderFields) :
             HeaderHolds(doc, HeaderFields[i]) => HeaderHolds(doc', HeaderFields[i])]_vars

(* The user typed a title and then cleared the input: the effect ran      *)
(* through and the Document keeps the title                               *)
C30_Witness ==
    /\ form.mounted
    /\ form.edits = 2
    /\ form.pending = <<>>
    /\ form.values["title"] = Str("")
    /\ Get(HeaderOf(doc).fields, "title") = Str("Ann Lee")
    /\ last.op = "updateField"
    /\ last.args.path = Str("title")

=============================================================================
